---- MODULE Spec2Model ----
(***************************************************************************)
(* Compliance classification and filtering engine of the incident          *)
(* processing service (app/services/compliance.py).                        *)
(*                                                                         *)
(* Python strings are modelled as sequences of one-character strings, so   *)
(* that lower-casing, substring tests, regular-expression search and the   *)
(* masking helpers are computed character by character.                    *)
(***************************************************************************)
EXTENDS Integers, Sequences, FiniteSets, TLC

\* ------------------------------------------------------------------------
\* Characters and Python string helpers
\* ------------------------------------------------------------------------

LowerLetters == <<"a", "b", "c", "d", "e", "f", "g", "h", "i", "j", "k", "l", "m", "n", "o", "p", "q", "r", "s", "t", "u", "v", "w", "x", "y", "z">>

UpperLetters == <<"A", "B", "C", "D", "E", "F", "G", "H", "I", "J", "K", "L", "M", "N", "O", "P", "Q", "R", "S", "T", "U", "V", "W", "X", "Y", "Z">>

Digits == {"0", "1", "2", "3", "4", "5", "6", "7", "8", "9"}

Punctuation == {" ", "-", ".", "_", "@", ":", "=", "'", "[", "]", ",", "*", "%", "+", "|"}

Letters == {LowerLetters[i] : i \in 1..26} \cup {UpperLetters[i] : i \in 1..26}

Alphabet == Letters \cup Digits \cup Punctuation

\* \w, \s, \S and \d of Python's re module, over the alphabet above
WordChars == Letters \cup Digits \cup {"_"}

SpaceChars == {" "}

NonSpaceChars == Alphabet \ SpaceChars

\* str.lower() on one character, tabulated over the alphabet
LowerOf ==
    [c \in Alphabet |->
        IF \E i \in 1..26 : UpperLetters[i] = c
        THEN LowerLetters[CHOOSE i \in 1..26 : UpperLetters[i] = c]
        ELSE c]

LowerChar(c) == LowerOf[c]

\* str.lower()
lower(s) == [i \in 1..Len(s) |-> LowerChar(s[i])]

\* the Python test  sub in s  on strings
Contains(s, sub) ==
    \E p \in 0..(Len(s) - Len(sub)) :
        \A i \in 1..Len(sub) : s[p + i] = sub[i]

\* the string  c * n
Repeat(c, n) == [i \in 1..n |-> c]

\* str(n) for a non-negative integer n
RECURSIVE IntStr(_)
IntStr(n) ==
    LET d == <<"0", "1", "2", "3", "4", "5", "6", "7", "8", "9">>[(n % 10) + 1]
    IN  IF n < 10 THEN <<d>> ELSE Append(IntStr(n \div 10), d)

\* ------------------------------------------------------------------------
\* re.search: a pattern is a sequence of atoms; matching computes the set
\* of positions at which a match of the atoms so far can end
\* ------------------------------------------------------------------------

\* hi of a quantifier without upper limit (+, *, {2,})
Unbounded == -1

\* \b
Bnd == [t |-> "bnd"]

\* a character class repeated between lo and hi times
Cls(cs, lo, hi) == [t |-> "cls", cs |-> cs, lo |-> lo, hi |-> hi]

\* an alternation of literal words, compared under (?i) when ci
Alt(words, ci) == [t |-> "alt", words |-> words, ci |-> ci]

IsWordAt(s, i) == i \in 1..Len(s) /\ s[i] \in WordChars

\* \b holds at position p (between s[p-1] and s[p])
IsBoundary(s, p) == IsWordAt(s, p - 1) # IsWordAt(s, p)

\* one more character of class cs consumed from each position of P
StepCls(s, cs, P) == {p + 1 : p \in {q \in P : q <= Len(s) /\ s[q] \in cs}}

RECURSIVE RepCls(_, _, _, _, _, _)
RepCls(s, cs, P, n, lo, hi) ==
    LET here == IF n >= lo THEN P ELSE {}
    IN  IF P = {} \/ n = hi
        THEN here
        ELSE here \cup RepCls(s, cs, StepCls(s, cs, P), n + 1, lo, hi)

WordAt(s, w, p, ci) ==
    /\ p + Len(w) - 1 <= Len(s)
    /\ \A i \in 1..Len(w) :
          IF ci THEN LowerChar(s[p + i - 1]) = LowerChar(w[i])
                ELSE s[p + i - 1] = w[i]

MatchAtom(s, a, P) ==
    CASE a.t = "bnd" -> {p \in P : IsBoundary(s, p)}
      [] a.t = "cls" -> RepCls(s, a.cs, P, 0, a.lo,
                               IF a.hi = Unbounded THEN Len(s) ELSE a.hi)
      [] a.t = "alt" -> UNION {{p + Len(w) : p \in {q \in P : WordAt(s, w, q, a.ci)}}
                               : w \in a.words}

RECURSIVE MatchSeq(_, _, _, _)
MatchSeq(s, pat, i, P) ==
    IF i > Len(pat) \/ P = {}
    THEN P
    ELSE MatchSeq(s, pat, i + 1, MatchAtom(s, pat[i], P))

\* re.search(pattern, s) is not None
re_search(pat, s) == MatchSeq(s, pat, 1, 1..(Len(s) + 1)) # {}

D(lo, hi) == Cls(Digits, lo, hi)

Ch(c) == Cls({c}, 1, 1)

\* r'\b\d{3}-\d{2}-\d{4}\b'
PatSSN == <<Bnd, D(3, 3), Ch("-"), D(2, 2), Ch("-"), D(4, 4), Bnd>>

\* r'\b\d{4}[\s-]?\d{4}[\s-]?\d{4}[\s-]?\d{4}\b'
PatCreditCard ==
    LET sep == Cls(SpaceChars \cup {"-"}, 0, 1)
    IN  <<Bnd, D(4, 4), sep, D(4, 4), sep, D(4, 4), sep, D(4, 4), Bnd>>

\* r'(?i)(password|pwd|pass)\s*[:=]\s*\S+'
PatPassword ==
    <<Alt({<<"p", "a", "s", "s", "w", "o", "r", "d">>, <<"p", "w", "d">>,
           <<"p", "a", "s", "s">>}, TRUE),
      Cls(SpaceChars, 0, Unbounded), Cls({":", "="}, 1, 1),
      Cls(SpaceChars, 0, Unbounded), Cls(NonSpaceChars, 1, Unbounded)>>

\* r'\b[A-Za-z0-9._%+-]+@[A-Za-z0-9.-]+\.[A-Z|a-z]{2,}\b'
PatEmail ==
    <<Bnd, Cls(Letters \cup Digits \cup {".", "_", "%", "+", "-"}, 1, Unbounded),
      Ch("@"), Cls(Letters \cup Digits \cup {".", "-"}, 1, Unbounded),
      Ch("."), Cls(Letters \cup {"|"}, 2, Unbounded), Bnd>>

\* r'\b\d{3}[-.]?\d{3}[-.]?\d{4}\b'
PatPhone ==
    LET sep == Cls({"-", "."}, 0, 1)
    IN  <<Bnd, D(3, 3), sep, D(3, 3), sep, D(4, 4), Bnd>>

\* r'\b(?:\d{1,3}\.){3}\d{1,3}\b'
PatIP ==
    <<Bnd, D(1, 3), Ch("."), D(1, 3), Ch("."), D(1, 3), Ch("."), D(1, 3), Bnd>>

\* ------------------------------------------------------------------------
\* Rule tables (ComplianceFilter._initialize_classification_rules)
\* ------------------------------------------------------------------------

RestrictedFields ==
    { <<"p", "a", "s", "s", "w", "o", "r", "d">>,
      <<"t", "o", "k", "e", "n">>,
      <<"a", "p", "i", "_", "k", "e", "y">>,
      <<"s", "e", "c", "r", "e", "t">>,
      <<"p", "r", "i", "v", "a", "t", "e", "_", "k", "e", "y">>,
      <<"s", "s", "n">>,
      <<"s", "o", "c", "i", "a", "l", "_", "s", "e", "c", "u", "r", "i", "t", "y", "_", "n", "u", "m", "b", "e", "r">>,
      <<"c", "r", "e", "d", "i", "t", "_", "c", "a", "r", "d">>,
      <<"b", "a", "n", "k", "_", "a", "c", "c", "o", "u", "n", "t">> }

ConfidentialFields ==
    { <<"c", "a", "l", "l", "e", "r", "_", "i", "d">>,
      <<"e", "m", "a", "i", "l">>,
      <<"p", "h", "o", "n", "e">>,
      <<"m", "o", "b", "i", "l", "e", "_", "p", "h", "o", "n", "e">>,
      <<"a", "d", "d", "r", "e", "s", "s">>,
      <<"e", "m", "p", "l", "o", "y", "e", "e", "_", "n", "u", "m", "b", "e", "r">>,
      <<"i", "p", "_", "a", "d", "d", "r", "e", "s", "s">>,
      <<"m", "a", "c", "_", "a", "d", "d", "r", "e", "s", "s">> }

InternalFields ==
    { <<"d", "e", "p", "a", "r", "t", "m", "e", "n", "t">>,
      <<"m", "a", "n", "a", "g", "e", "r">>,
      <<"l", "o", "c", "a", "t", "i", "o", "n">>,
      <<"b", "u", "i", "l", "d", "i", "n", "g">>,
      <<"a", "s", "s", "i", "g", "n", "m", "e", "n", "t", "_", "g", "r", "o", "u", "p">>,
      <<"a", "s", "s", "i", "g", "n", "e", "d", "_", "t", "o">>,
      <<"w", "o", "r", "k", "_", "n", "o", "t", "e", "s">> }

PublicFields ==
    { <<"n", "u", "m", "b", "e", "r">>,
      <<"s", "h", "o", "r", "t", "_", "d", "e", "s", "c", "r", "i", "p", "t", "i", "o", "n">>,
      <<"s", "t", "a", "t", "e">>,
      <<"p", "r", "i", "o", "r", "i", "t", "y">>,
      <<"u", "r", "g", "e", "n", "c", "y">>,
      <<"i", "m", "p", "a", "c", "t">>,
      <<"c", "a", "t", "e", "g", "o", "r", "y">>,
      <<"s", "u", "b", "c", "a", "t", "e", "g", "o", "r", "y">>,
      <<"o", "p", "e", "n", "e", "d", "_", "a", "t">>,
      <<"u", "p", "d", "a", "t", "e", "d", "_", "a", "t">>,
      <<"r", "e", "s", "o", "l", "v", "e", "d", "_", "a", "t">> }

\* the rule table with the internal tier declared first
ClassificationRules_internalFirst ==
    << [level |-> "internal", fields |-> InternalFields,
        patterns |-> <<>>, action |-> "allow"],
       [level |-> "restricted", fields |-> RestrictedFields,
        patterns |-> <<PatSSN, PatCreditCard, PatPassword>>, action |-> "remove"],
       [level |-> "confidential", fields |-> ConfidentialFields,
        patterns |-> <<PatEmail, PatPhone, PatIP>>, action |-> "mask"],
       [level |-> "public", fields |-> PublicFields,
        patterns |-> <<>>, action |-> "allow"] >>

\* the restricted rule without its value patterns
ClassificationRules_noRestrictedPatterns ==
    << [level |-> "restricted", fields |-> RestrictedFields,
        patterns |-> <<>>, action |-> "remove"],
       [level |-> "confidential", fields |-> ConfidentialFields,
        patterns |-> <<PatEmail, PatPhone, PatIP>>, action |-> "mask"],
       [level |-> "internal", fields |-> InternalFields,
        patterns |-> <<>>, action |-> "allow"],
       [level |-> "public", fields |-> PublicFields,
        patterns |-> <<>>, action |-> "allow"] >>

\* the confidential rule allowing its fields instead of masking them
ClassificationRules_confidentialAllow ==
    << [level |-> "restricted", fields |-> RestrictedFields,
        patterns |-> <<PatSSN, PatCreditCard, PatPassword>>, action |-> "remove"],
       [level |-> "confidential", fields |-> ConfidentialFields,
        patterns |-> <<PatEmail, PatPhone, PatIP>>, action |-> "allow"],
       [level |-> "internal", fields |-> InternalFields,
        patterns |-> <<>>, action |-> "allow"],
       [level |-> "public", fields |-> PublicFields,
        patterns |-> <<>>, action |-> "allow"] >>

\* self._classification_rules, in the insertion order of the dict
ClassificationRules ==
    << [level |-> "restricted", fields |-> RestrictedFields,
        patterns |-> <<PatSSN, PatCreditCard, PatPassword>>, action |-> "remove"],
       [level |-> "confidential", fields |-> ConfidentialFields,
        patterns |-> <<PatEmail, PatPhone, PatIP>>, action |-> "mask"],
       [level |-> "internal", fields |-> InternalFields,
        patterns |-> <<>>, action |-> "allow"],
       [level |-> "public", fields |-> PublicFields,
        patterns |-> <<>>, action |-> "allow"] >>

\* ComplianceLevel
ComplianceLevel == {"public", "internal", "confidential", "restricted"}

\* ------------------------------------------------------------------------
\* Values: None, int, str, or a reference to a list object of the heap
\* ------------------------------------------------------------------------

NoneV == [k |-> "none"]

IntV(n) == [k |-> "int", n |-> n]

StrV(s) == [k |-> "str", s |-> s]

RefV(a) == [k |-> "list", addr |-> a]

\* repr of a list of strings: ['a', 'b']
RECURSIVE ListItems(_, _)
ListItems(l, i) ==
    IF i > Len(l) THEN <<>>
    ELSE (IF i > 1 THEN <<",", " ">> ELSE <<>>) \o <<"'">> \o l[i] \o <<"'">>
         \o ListItems(l, i + 1)

\* str(value)
py_str(hp, v) ==
    CASE v.k = "none" -> <<"N", "o", "n", "e">>
      [] v.k = "int"  -> IntStr(v.n)
      [] v.k = "str"  -> v.s
      [] v.k = "list" -> <<"[">> \o ListItems(hp[v.addr], 1) \o <<"]">>

\* ------------------------------------------------------------------------
\* ComplianceFilter._classify_field
\* ------------------------------------------------------------------------

DataClassification(field_name, level, reason, action) ==
    [field_name |-> field_name, classification |-> level,
     reason |-> reason, action |-> action]

\* for pattern in rules['patterns']: if re.search(pattern, field_value_str)
RECURSIVE AnyPatternFrom(_, _, _)
AnyPatternFrom(patterns, j, s) ==
    IF j > Len(patterns) THEN FALSE
    ELSE IF re_search(patterns[j], s) THEN TRUE
    ELSE AnyPatternFrom(patterns, j + 1, s)

\* for level, rules in self._classification_rules.items(): ...
RECURSIVE ClassifyFrom(_, _, _, _)
ClassifyFrom(i, field_name, field_name_lower, field_value_str) ==
    IF i > Len(ClassificationRules)
    THEN DataClassification(field_name, "internal",
                            <<"Default classification">>, "allow")
    ELSE LET rules == ClassificationRules[i]
         IN  IF field_name_lower \in rules.fields
             THEN DataClassification(field_name, rules.level,
                      <<"Field name '", field_name, "' matches ", rules.level,
                        " classification">>, rules.action)
             ELSE IF AnyPatternFrom(rules.patterns, 1, field_value_str)
             THEN DataClassification(field_name, rules.level,
                      <<"Field value matches ", rules.level, " pattern">>,
                      rules.action)
             ELSE ClassifyFrom(i + 1, field_name, field_name_lower, field_value_str)

\* only a string value is matched, any other value counting as empty
ValueStr_onlyStrings(hp, field_value) ==
    IF field_value.k = "str" THEN field_value.s ELSE <<>>

\* str(field_value) if field_value is not None else ""
ValueStr(hp, field_value) ==
    IF field_value.k = "none" THEN <<>> ELSE py_str(hp, field_value)

\* the name test done on the name as given, not lower-cased
_classify_field_noLower(hp, field_name, field_value) ==
    ClassifyFrom(1, field_name, field_name, ValueStr(hp, field_value))

_classify_field(hp, field_name, field_value) ==
    ClassifyFrom(1, field_name, lower(field_name), ValueStr(hp, field_value))

\* ------------------------------------------------------------------------
\* Masking (ComplianceFilter._initialize_masking_patterns and helpers)
\* ------------------------------------------------------------------------

\* position of the first occurrence of c in s, 0 when absent (str.find + 1)
FirstIndex(s, c) ==
    IF \E i \in 1..Len(s) : s[i] = c
    THEN CHOOSE i \in 1..Len(s) : s[i] = c /\ \A j \in 1..(i - 1) : s[j] # c
    ELSE 0

\* the local part taken up to the last '@' (rsplit) instead of the first
_mask_email_lastAt(email) ==
    LET ats == {i \in 1..Len(email) : email[i] = "@"}
        at == IF ats = {} THEN 0 ELSE CHOOSE i \in ats : \A j \in ats : j <= i
        local == SubSeq(email, 1, at - 1)
        domain == SubSeq(email, at + 1, Len(email))
        masked_local ==
            IF Len(local) > 2
            THEN <<local[1]>> \o Repeat("*", Len(local) - 2) \o <<local[Len(local)]>>
            ELSE Repeat("*", Len(local))
    IN  IF at # 0 THEN masked_local \o <<"@">> \o domain
        ELSE Repeat("*", Len(email))

\* only the first character of the local part is kept
_mask_email_firstOnly(email) ==
    LET at == FirstIndex(email, "@")
        local == SubSeq(email, 1, at - 1)
        domain == SubSeq(email, at + 1, Len(email))
        masked_local ==
            IF Len(local) > 2
            THEN <<local[1]>> \o Repeat("*", Len(local) - 1)
            ELSE Repeat("*", Len(local))
    IN  IF at # 0 THEN masked_local \o <<"@">> \o domain
        ELSE Repeat("*", Len(email))

_mask_email(email) ==
    LET at == FirstIndex(email, "@")
        local == SubSeq(email, 1, at - 1)
        domain == SubSeq(email, at + 1, Len(email))
        masked_local ==
            IF Len(local) > 2
            THEN <<local[1]>> \o Repeat("*", Len(local) - 2) \o <<local[Len(local)]>>
            ELSE Repeat("*", Len(local))
    IN  IF at # 0 THEN masked_local \o <<"@">> \o domain
        ELSE Repeat("*", Len(email))

\* re.sub(r'\D', '', phone)
IsDigit(c) == c \in Digits

_mask_phone(phone) ==
    LET digits_only == SelectSeq(phone, IsDigit)
        n == Len(digits_only)
    IN  IF n >= 10
        THEN <<"*", "*", "*", "-", "*", "*", "*", "-">> \o SubSeq(digits_only, n - 3, n)
        ELSE Repeat("*", Len(phone))

IsDot(c) == c = "."

_mask_ip(ip) ==
    LET dots == Len(SelectSeq(ip, IsDot))
        d1 == FirstIndex(ip, ".")
        rest == SubSeq(ip, d1 + 1, Len(ip))
        d2 == FirstIndex(rest, ".")
    IN  IF dots + 1 = 4
        THEN SubSeq(ip, 1, d1 - 1) \o <<".">> \o SubSeq(rest, 1, d2 - 1)
             \o <<".", "*", "*", "*", ".", "*", "*">>
        ELSE Repeat("*", Len(ip))

\* Python's hash() of a str is keyed by a seed drawn once per process; the
\* value below stands for hash(s) % 10000 under seed sd
CodeOf ==
    [c \in Alphabet |->
        IF \E i \in 1..26 : LowerLetters[i] = c
        THEN CHOOSE i \in 1..26 : LowerLetters[i] = c
        ELSE IF \E i \in 1..26 : UpperLetters[i] = c
        THEN 26 + (CHOOSE i \in 1..26 : UpperLetters[i] = c)
        ELSE IF c \in Digits THEN 53 ELSE 54]

CharCode(c) == CodeOf[c]

RECURSIVE CodeSum(_, _)
CodeSum(s, i) == IF i > Len(s) THEN 0 ELSE i * CharCode(s[i]) + CodeSum(s, i + 1)

hash_mod(sd, s) == (sd * (Len(s) + 1) + CodeSum(s, 1)) % 10000

\* the format  %04d
Fmt04d(n) == Repeat("0", 4 - Len(IntStr(n))) \o IntStr(n)

\* the default strategy without the cap of 8 characters
mask_func_uncapped(sd, key, x) ==
    CASE key = "email" -> _mask_email(x)
      [] key = "phone" -> _mask_phone(x)
      [] key = "ip_address" -> _mask_ip(x)
      [] key = "caller_id" -> <<"U", "S", "E", "R", "_">> \o Fmt04d(hash_mod(sd, x))
      [] key = "employee_number" -> <<"E", "M", "P", "_">> \o Fmt04d(hash_mod(sd, x))
      [] key = "default" -> Repeat("*", Len(x))

\* the lambda stored under one key of self._masking_patterns
mask_func(sd, key, x) ==
    CASE key = "email" -> _mask_email(x)
      [] key = "phone" -> _mask_phone(x)
      [] key = "ip_address" -> _mask_ip(x)
      [] key = "caller_id" -> <<"U", "S", "E", "R", "_">> \o Fmt04d(hash_mod(sd, x))
      [] key = "employee_number" -> <<"E", "M", "P", "_">> \o Fmt04d(hash_mod(sd, x))
      [] key = "default" -> Repeat("*", IF Len(x) < 8 THEN Len(x) ELSE 8)

\* the table with the phone entry put before the email entry
MaskingPatterns_phoneFirst ==
    << [key |-> "phone", name |-> <<"p", "h", "o", "n", "e">>],
       [key |-> "email", name |-> <<"e", "m", "a", "i", "l">>],
       [key |-> "ip_address",
        name |-> <<"i", "p", "_", "a", "d", "d", "r", "e", "s", "s">>],
       [key |-> "caller_id",
        name |-> <<"c", "a", "l", "l", "e", "r", "_", "i", "d">>],
       [key |-> "employee_number",
        name |-> <<"e", "m", "p", "l", "o", "y", "e", "e", "_", "n", "u", "m",
                   "b", "e", "r">>],
       [key |-> "default", name |-> <<"d", "e", "f", "a", "u", "l", "t">>] >>

\* self._masking_patterns, in the insertion order of the dict
MaskingPatterns ==
    << [key |-> "email", name |-> <<"e", "m", "a", "i", "l">>],
       [key |-> "phone", name |-> <<"p", "h", "o", "n", "e">>],
       [key |-> "ip_address",
        name |-> <<"i", "p", "_", "a", "d", "d", "r", "e", "s", "s">>],
       [key |-> "caller_id",
        name |-> <<"c", "a", "l", "l", "e", "r", "_", "i", "d">>],
       [key |-> "employee_number",
        name |-> <<"e", "m", "p", "l", "o", "y", "e", "e", "_", "n", "u", "m",
                   "b", "e", "r">>],
       [key |-> "default", name |-> <<"d", "e", "f", "a", "u", "l", "t">>] >>

\* for pattern_name, mask_func in self._masking_patterns.items(): ...
RECURSIVE MaskFrom(_, _, _, _)
MaskFrom(i, sd, field_name_lower, x) ==
    IF i > Len(MaskingPatterns)
    THEN mask_func(sd, "default", x)
    ELSE IF Contains(field_name_lower, MaskingPatterns[i].name)
    THEN mask_func(sd, MaskingPatterns[i].key, x)
    ELSE MaskFrom(i + 1, sd, field_name_lower, x)

_mask_field_value(hp, sd, field_name, field_value) ==
    StrV(MaskFrom(1, sd, lower(field_name), py_str(hp, field_value)))

\* _encrypt_field_value: "ENCRYPTED_" followed by 16 hex digits of the
\* SHA-256 digest of str(value); the digest is kept symbolic
_encrypt_field_value(hp, field_value) ==
    [k |-> "encrypted", of |-> py_str(hp, field_value)]

\* ------------------------------------------------------------------------
\* Python dicts: a sequence of <<key, value>> entries in insertion order,
\* with pairwise distinct keys
\* ------------------------------------------------------------------------

Keys(d) == [i \in 1..Len(d) |-> d[i][1]]

\* key in d
DictHas(d, key) == \E i \in 1..Len(d) : d[i][1] = key

\* d[key]
DictGet(d, key) == d[CHOOSE i \in 1..Len(d) : d[i][1] = key][2]

\* del d[key]
DictDel(d, key) ==
    LET p == CHOOSE i \in 1..Len(d) : d[i][1] = key
    IN  SubSeq(d, 1, p - 1) \o SubSeq(d, p + 1, Len(d))

\* d[key] = value
DictSet(d, key, value) ==
    IF DictHas(d, key)
    THEN [i \in 1..Len(d) |-> IF d[i][1] = key THEN <<key, value>> ELSE d[i]]
    ELSE Append(d, <<key, value>>)

\* ------------------------------------------------------------------------
\* ComplianceFilter.classify_data
\* ------------------------------------------------------------------------

RECURSIVE ClassifyItems(_, _, _)
ClassifyItems(hp, data, i) ==
    IF i > Len(data) THEN <<>>
    ELSE <<_classify_field(hp, data[i][1], data[i][2])>>
         \o ClassifyItems(hp, data, i + 1)

\* fields whose value is None are skipped
HasValue(entry) == entry[2].k # "none"

classify_data_skipNone(hp, data) == ClassifyItems(hp, SelectSeq(data, HasValue), 1)

classify_data(hp, data) == ClassifyItems(hp, data, 1)

\* ------------------------------------------------------------------------
\* ComplianceFilter._calculate_compliance_score
\* ------------------------------------------------------------------------

\* the hierarchy with internal and confidential exchanged
level_hierarchy_swapped ==
    [public |-> 0, internal |-> 2, confidential |-> 1, restricted |-> 3]

level_hierarchy ==
    [public |-> 0, internal |-> 1, confidential |-> 2, restricted |-> 3]

\* the comparison made with >= instead of >
_is_more_restrictive_orEqual(field_level, target_level) ==
    level_hierarchy[field_level] >= level_hierarchy[target_level]

\* the comparison turned round
_is_more_restrictive_reversed(field_level, target_level) ==
    level_hierarchy[field_level] < level_hierarchy[target_level]

_is_more_restrictive(field_level, target_level) ==
    level_hierarchy[field_level] > level_hierarchy[target_level]

\* a mitigated field above the target is not counted as compliant
RECURSIVE CompliantCount_noMitigation(_, _, _)
CompliantCount_noMitigation(classifications, target_level, i) ==
    IF i > Len(classifications) THEN 0
    ELSE (IF ~_is_more_restrictive(classifications[i].classification, target_level)
          THEN 1 ELSE 0)
         + CompliantCount_noMitigation(classifications, target_level, i + 1)

\* the two tests made one after the other (if ... if) instead of if ... elif
RECURSIVE CompliantCount_bothTests(_, _, _)
CompliantCount_bothTests(classifications, target_level, i) ==
    IF i > Len(classifications) THEN 0
    ELSE (IF ~_is_more_restrictive(classifications[i].classification, target_level)
          THEN 1 ELSE 0)
         + (IF classifications[i].action \in {"mask", "remove", "encrypt"}
            THEN 1 ELSE 0)
         + CompliantCount_bothTests(classifications, target_level, i + 1)

RECURSIVE CompliantCount(_, _, _)
CompliantCount(classifications, target_level, i) ==
    IF i > Len(classifications) THEN 0
    ELSE LET c == classifications[i]
             one == IF ~_is_more_restrictive(c.classification, target_level) THEN 1
                    ELSE IF c.action \in {"mask", "remove", "encrypt"} THEN 1
                    ELSE 0
         IN  one + CompliantCount(classifications, target_level, i + 1)

\* the float compliant_count / total_count is kept as the pair of its
\* numerator and denominator; 1.0 is 1/1
_calculate_compliance_score(classifications, target_level) ==
    IF Len(classifications) = 0
    THEN [num |-> 1, den |-> 1]
    ELSE [num |-> CompliantCount(classifications, target_level, 1),
          den |-> Len(classifications)]

\* score == 1.0
IsOne(score) == score.num = score.den

\* ------------------------------------------------------------------------
\* ComplianceFilter.validate_compliance
\* ------------------------------------------------------------------------

\* every field above the required level fails, whatever its action
RECURSIVE ValidateFrom_anyAction(_, _, _)
ValidateFrom_anyAction(classifications, required_level, i) ==
    IF i > Len(classifications) THEN TRUE
    ELSE IF _is_more_restrictive(classifications[i].classification, required_level)
    THEN FALSE
    ELSE ValidateFrom_anyAction(classifications, required_level, i + 1)

\* the verdict taken from the first classification alone
ValidateFrom_firstOnly(classifications, required_level, i) ==
    IF i > Len(classifications) THEN TRUE
    ELSE ~(/\ _is_more_restrictive(classifications[i].classification, required_level)
           /\ classifications[i].action = "allow")

\* for classification in classifications: ... return False ... return True
RECURSIVE ValidateFrom(_, _, _)
ValidateFrom(classifications, required_level, i) ==
    IF i > Len(classifications) THEN TRUE
    ELSE IF /\ _is_more_restrictive(classifications[i].classification, required_level)
            /\ classifications[i].action = "allow"
    THEN FALSE
    ELSE ValidateFrom(classifications, required_level, i + 1)

validate_compliance(hp, data, required_level) ==
    ValidateFrom(classify_data(hp, data), required_level, 1)

\* ------------------------------------------------------------------------
\* ComplianceFilter.filter_data
\* ------------------------------------------------------------------------

\* filtered_data = data: no copy, the two names denote the same dict
dict_copy_alias(cells, src) == [cells |-> cells, ref |-> src]

\* data.copy(): the dict objects of one call live in cells; the copy is a
\* new cell holding the same entries (the values are shared, not copied)
dict_copy(cells, src) ==
    [cells |-> [cells EXCEPT !["filtered"] = cells[src]], ref |-> "filtered"]

\* a removed field is deleted but not recorded in removed_fields
ApplyOne_removeUnrecorded(hp, sd, c, acc) ==
    LET fd == acc.cells[acc.ref]
    IN  IF c.action = "remove" /\ DictHas(fd, c.field_name)
        THEN [acc EXCEPT !.cells[acc.ref] = DictDel(fd, c.field_name)]
        ELSE IF c.action = "mask" /\ DictHas(fd, c.field_name)
        THEN [acc EXCEPT
                 !.cells[acc.ref] =
                     DictSet(fd, c.field_name,
                         _mask_field_value(hp, sd, c.field_name,
                                           DictGet(fd, c.field_name))),
                 !.masked_fields = Append(@, c.field_name)]
        ELSE acc

\* a masked field is recorded in masked_fields but its value is not replaced
ApplyOne_maskNotStored(hp, sd, c, acc) ==
    LET fd == acc.cells[acc.ref]
    IN  IF c.action = "remove" /\ DictHas(fd, c.field_name)
        THEN [acc EXCEPT !.cells[acc.ref] = DictDel(fd, c.field_name),
                         !.removed_fields = Append(@, c.field_name)]
        ELSE IF c.action = "mask" /\ DictHas(fd, c.field_name)
        THEN [acc EXCEPT !.masked_fields = Append(@, c.field_name)]
        ELSE acc

\* every field that is not removed is masked, the allowed ones included
ApplyOne_allowMasked(hp, sd, c, acc) ==
    LET fd == acc.cells[acc.ref]
    IN  IF c.action = "remove" /\ DictHas(fd, c.field_name)
        THEN [acc EXCEPT !.cells[acc.ref] = DictDel(fd, c.field_name),
                         !.removed_fields = Append(@, c.field_name)]
        ELSE IF DictHas(fd, c.field_name)
        THEN [acc EXCEPT
                 !.cells[acc.ref] =
                     DictSet(fd, c.field_name,
                         _mask_field_value(hp, sd, c.field_name,
                                           DictGet(fd, c.field_name))),
                 !.masked_fields = Append(@, c.field_name)]
        ELSE acc

\* a removed field is recorded in masked_fields as well
ApplyOne_removeAlsoMasked(hp, sd, c, acc) ==
    LET fd == acc.cells[acc.ref]
    IN  IF c.action = "remove" /\ DictHas(fd, c.field_name)
        THEN [acc EXCEPT !.cells[acc.ref] = DictDel(fd, c.field_name),
                         !.removed_fields = Append(@, c.field_name),
                         !.masked_fields = Append(@, c.field_name)]
        ELSE IF c.action = "mask" /\ DictHas(fd, c.field_name)
        THEN [acc EXCEPT
                 !.cells[acc.ref] =
                     DictSet(fd, c.field_name,
                         _mask_field_value(hp, sd, c.field_name,
                                           DictGet(fd, c.field_name))),
                 !.masked_fields = Append(@, c.field_name)]
        ELSE acc

\* the masked value stored under the lower-cased field name
ApplyOne_maskLowerKey(hp, sd, c, acc) ==
    LET field_name == c.field_name
        fd == acc.cells[acc.ref]
    IN  IF c.action = "remove"
        THEN IF DictHas(fd, field_name)
             THEN [acc EXCEPT !.cells[acc.ref] = DictDel(fd, field_name),
                              !.removed_fields = Append(@, field_name)]
             ELSE acc
        ELSE IF c.action = "mask"
        THEN IF DictHas(fd, field_name)
             THEN [acc EXCEPT
                      !.cells[acc.ref] =
                          DictSet(fd, lower(field_name),
                              _mask_field_value(hp, sd, field_name,
                                                DictGet(fd, field_name))),
                      !.masked_fields = Append(@, field_name)]
             ELSE acc
        ELSE IF c.action = "encrypt"
        THEN IF DictHas(fd, field_name)
             THEN [acc EXCEPT
                      !.cells[acc.ref] =
                          DictSet(fd, field_name,
                              _encrypt_field_value(hp, DictGet(fd, field_name)))]
             ELSE acc
        ELSE acc

\* the body of the loop over the classifications: acc.cells[acc.ref] is
\* filtered_data
ApplyOne(hp, sd, c, acc) ==
    LET field_name == c.field_name
        fd == acc.cells[acc.ref]
    IN  IF c.action = "remove"
        THEN IF DictHas(fd, field_name)
             THEN [acc EXCEPT !.cells[acc.ref] = DictDel(fd, field_name),
                              !.removed_fields = Append(@, field_name)]
             ELSE acc
        ELSE IF c.action = "mask"
        THEN IF DictHas(fd, field_name)
             THEN [acc EXCEPT
                      !.cells[acc.ref] =
                          DictSet(fd, field_name,
                              _mask_field_value(hp, sd, field_name,
                                                DictGet(fd, field_name))),
                      !.masked_fields = Append(@, field_name)]
             ELSE acc
        ELSE IF c.action = "encrypt"
        THEN IF DictHas(fd, field_name)
             THEN [acc EXCEPT
                      !.cells[acc.ref] =
                          DictSet(fd, field_name,
                              _encrypt_field_value(hp, DictGet(fd, field_name)))]
             ELSE acc
        ELSE acc

\* for classification in classifications: ...
RECURSIVE ApplyActions(_, _, _, _, _)
ApplyActions(hp, sd, classifications, i, acc) ==
    IF i > Len(classifications) THEN acc
    ELSE ApplyActions(hp, sd, classifications, i + 1,
                      ApplyOne(hp, sd, classifications[i], acc))

\* the call filter_data(data, target_level): data is the caller's dict as
\* the call leaves it, result the ComplianceResult
filter_data(hp, sd, data, target_level) ==
    LET classifications == classify_data(hp, data)
        copied == dict_copy([data |-> data, filtered |-> <<>>], "data")
        done == ApplyActions(hp, sd, classifications, 1,
                    [cells |-> copied.cells, ref |-> copied.ref,
                     removed_fields |-> <<>>, masked_fields |-> <<>>])
        compliance_score == _calculate_compliance_score(classifications, target_level)
    IN  [data |-> done.cells["data"],
         result |-> [original_data |-> done.cells["data"],
                     filtered_data |-> done.cells[done.ref],
                     removed_fields |-> done.removed_fields,
                     masked_fields |-> done.masked_fields,
                     classifications |-> classifications,
                     compliance_score |-> compliance_score]]

\* ------------------------------------------------------------------------
\* Inputs
\* ------------------------------------------------------------------------

N_password == <<"p", "a", "s", "s", "w", "o", "r", "d">>
N_Password == <<"P", "a", "s", "s", "w", "o", "r", "d">>
N_api_key == <<"a", "p", "i", "_", "k", "e", "y">>
N_email == <<"e", "m", "a", "i", "l">>
N_Email == <<"E", "m", "a", "i", "l">>
N_work_email == <<"w", "o", "r", "k", "_", "e", "m", "a", "i", "l">>
N_phone_email == <<"p", "h", "o", "n", "e", "_", "e", "m", "a", "i", "l">>
N_mobile_phone == <<"m", "o", "b", "i", "l", "e", "_", "p", "h", "o", "n", "e">>
N_ip_address == <<"i", "p", "_", "a", "d", "d", "r", "e", "s", "s">>
N_caller_id == <<"c", "a", "l", "l", "e", "r", "_", "i", "d">>
N_employee_number ==
    <<"e", "m", "p", "l", "o", "y", "e", "e", "_", "n", "u", "m", "b", "e", "r">>
N_address == <<"a", "d", "d", "r", "e", "s", "s">>
N_department == <<"d", "e", "p", "a", "r", "t", "m", "e", "n", "t">>
N_Department == <<"D", "e", "p", "a", "r", "t", "m", "e", "n", "t">>
N_number == <<"n", "u", "m", "b", "e", "r">>
N_State == <<"S", "t", "a", "t", "e">>
N_priority == <<"p", "r", "i", "o", "r", "i", "t", "y">>
N_notes == <<"n", "o", "t", "e", "s">>
N_extra == <<"e", "x", "t", "r", "a">>

V_empty == StrV(<<>>)
V_secret123 == StrV(<<"s", "e", "c", "r", "e", "t", "1", "2", "3">>)
V_ssn == StrV(<<"1", "2", "3", "-", "4", "5", "-", "6", "7", "8", "9">>)
V_ssn_text ==
    StrV(<<"s", "s", "n", " ", "1", "2", "3", "-", "4", "5", "-", "6", "7", "8", "9">>)
V_card ==
    StrV(<<"4", "1", "1", "1", " ", "1", "1", "1", "1", " ", "1", "1", "1", "1",
           " ", "1", "1", "1", "1">>)
V_pwd == StrV(<<"p", "w", "d", "=", "x">>)
V_mail == StrV(<<"a", "@", "b", ".", "c", "o">>)
V_john ==
    StrV(<<"j", "o", "h", "n", ".", "d", "o", "e", "@", "e", "x", "a", "m", "p",
           "l", "e", ".", "c", "o", "m">>)
V_phone == StrV(<<"5", "5", "5", "-", "1", "2", "3", "-", "4", "5", "6", "7">>)
V_ip == StrV(<<"1", "0", ".", "0", ".", "0", ".", "1">>)
V_inc == StrV(<<"I", "N", "C", "0", "0", "1">>)
V_x == StrV(<<"x">>)

\* the list objects a record may hold: 1 is ['x'], 2 is ['123-45-6789']
InitHeap == <<<<<<"x">>>>, <<V_ssn.s>>>>

\* per-process seeds of str hashing
Seeds == {3, 8}

\* field names and values of the records passed to the engine
Names == {N_Password, N_caller_id, N_number, N_State, N_notes}

Values == {V_secret123, V_ssn, V_mail, NoneV, RefV(1)}

\* field names and values passed to the per-field operations
FieldNames ==
    {N_password, N_Password, N_api_key, N_email, N_Email, N_work_email,
     N_phone_email, N_mobile_phone, N_ip_address, N_caller_id,
     N_employee_number, N_address, N_department, N_Department, N_number,
     N_State, N_priority, N_notes}

FieldValues ==
    {V_empty, V_secret123, V_ssn, V_ssn_text, V_card, V_pwd, V_mail, V_john,
     V_phone, V_ip, V_inc, V_x, NoneV, IntV(1), IntV(1234567890),
     RefV(1), RefV(2)}

\* largest number of fields of a record
MaxFields == 2

\* largest number of changes the caller makes to a returned filtered_data
MaxMutations == 1

\* the dicts with at most n entries, keys pairwise distinct
RECURSIVE Dicts(_)
Dicts(n) ==
    IF n = 0 THEN {<<>>}
    ELSE LET smaller == Dicts(n - 1)
             ext == {x \in smaller \X Names \X Values :
                        Len(x[1]) = n - 1 /\ ~DictHas(x[1], x[2])}
         IN  smaller \cup {Append(x[1], <<x[2], x[3]>>) : x \in ext}

NoResult == [none |-> TRUE]


\* ------------------------------------------------------------------------
\* State
\* ------------------------------------------------------------------------

VARIABLES
    record,           \* the caller's dict, passed as data
    heap,             \* the list objects that values of the dicts refer to
    seed,             \* the str hash seed of the process
    pc,               \* where the caller is
    classifications,  \* what classify_data returned to the caller
    result,           \* the ComplianceResult filter_data returned
    target,           \* the target_level passed to filter_data
    mutations,        \* changes made by the caller to result.filtered_data
    fname,            \* field name passed to a per-field operation
    fvalue,           \* field value passed to a per-field operation
    fout,             \* what the per-field operation returned
    clist,            \* a list of classifications passed to a scoring helper
    ctier,            \* the target or required level passed with it
    cout,             \* the score or the verdict returned
    calls,            \* the calls of filter_data in progress, one per caller
    frames,           \* the local variables of these calls
    engine,           \* the tables the engine object holds
    held,             \* what a caller of the engine keeps between its calls
    mout,             \* the strings returned by repeated masking calls
    proc,             \* one call of process_incident: its position and locals
    limiter           \* the rate limiter: its store, the clock, its last answer

vars == <<record, heap, seed, pc, classifications, result, target, mutations,
          fname, fvalue, fout, clist, ctier, cout, calls, frames,
          engine, held, mout, proc, limiter>>

fieldVars == <<fname, fvalue, fout>>

callVars == <<record, classifications, result, target, mutations>>

scoreVars == <<clist, ctier, cout>>

\* the variables of the other specifications
stepVars == <<calls, frames>>

engineVars == <<engine, held>>

serviceVars == <<proc, limiter>>

otherVars == <<scoreVars, stepVars, engineVars, mout, serviceVars>>

FieldIdle == fname = <<>> /\ fvalue = NoneV /\ fout = NoResult

CallIdle ==
    /\ record = <<>>
    /\ classifications = <<>>
    /\ result = NoResult
    /\ target = "internal"
    /\ mutations = 0

ScoreIdle == clist = <<>> /\ ctier = "internal" /\ cout = NoResult

\* the callers that may run filter_data at the same time
Callers == {1, 2}

NoCall ==
    [pc |-> "idle", arg |-> <<>>, data |-> <<>>, target |-> "internal",
     out |-> NoResult, overlapped |-> FALSE]

\* the locals of filter_data at the entry of a call
NoFrame ==
    [classifications |-> <<>>, worked |-> FALSE, i |-> 1,
     acc |-> [cells |-> [data |-> <<>>, filtered |-> <<>>], ref |-> "data",
              removed_fields |-> <<>>, masked_fields |-> <<>>]]

StepIdle == calls = [c \in Callers |-> NoCall] /\ frames = [c \in Callers |-> NoFrame]

\* self._initialize_sensitive_fields()
SensitiveFields ==
    { <<"c", "a", "l", "l", "e", "r", "_", "i", "d">>,
      <<"u", "s", "e", "r", "_", "i", "d">>,
      <<"e", "m", "a", "i", "l">>,
      <<"p", "h", "o", "n", "e">>,
      <<"m", "o", "b", "i", "l", "e", "_", "p", "h", "o", "n", "e">>,
      <<"h", "o", "m", "e", "_", "p", "h", "o", "n", "e">>,
      <<"a", "d", "d", "r", "e", "s", "s">>,
      <<"l", "o", "c", "a", "t", "i", "o", "n">>,
      <<"b", "u", "i", "l", "d", "i", "n", "g">>,
      <<"d", "e", "p", "a", "r", "t", "m", "e", "n", "t">>,
      <<"m", "a", "n", "a", "g", "e", "r">>,
      <<"e", "m", "p", "l", "o", "y", "e", "e", "_", "n", "u", "m", "b", "e", "r">>,
      <<"u", "s", "e", "r", "_", "n", "a", "m", "e">>,
      <<"d", "i", "s", "p", "l", "a", "y", "_", "n", "a", "m", "e">>,
      <<"p", "a", "s", "s", "w", "o", "r", "d">>,
      <<"t", "o", "k", "e", "n">>,
      <<"a", "p", "i", "_", "k", "e", "y">>,
      <<"s", "e", "c", "r", "e", "t">>,
      <<"p", "r", "i", "v", "a", "t", "e", "_", "k", "e", "y">>,
      <<"c", "e", "r", "t", "i", "f", "i", "c", "a", "t", "e">>,
      <<"h", "a", "s", "h">>,
      <<"e", "n", "c", "r", "y", "p", "t", "e", "d", "_", "p", "a", "s", "s", "w", "o", "r", "d">>,
      <<"i", "p", "_", "a", "d", "d", "r", "e", "s", "s">>,
      <<"m", "a", "c", "_", "a", "d", "d", "r", "e", "s", "s">>,
      <<"h", "o", "s", "t", "n", "a", "m", "e">>,
      <<"d", "o", "m", "a", "i", "n">>,
      <<"n", "e", "t", "w", "o", "r", "k", "_", "a", "d", "a", "p", "t", "e", "r">>,
      <<"s", "u", "b", "n", "e", "t">>,
      <<"g", "a", "t", "e", "w", "a", "y">>,
      <<"c", "o", "s", "t">>,
      <<"p", "r", "i", "c", "e">>,
      <<"b", "u", "d", "g", "e", "t">>,
      <<"e", "x", "p", "e", "n", "s", "e">>,
      <<"i", "n", "v", "o", "i", "c", "e">>,
      <<"p", "u", "r", "c", "h", "a", "s", "e", "_", "o", "r", "d", "e", "r">>,
      <<"c", "r", "e", "d", "i", "t", "_", "c", "a", "r", "d">>,
      <<"b", "a", "n", "k", "_", "a", "c", "c", "o", "u", "n", "t">>,
      <<"s", "s", "n">>,
      <<"s", "o", "c", "i", "a", "l", "_", "s", "e", "c", "u", "r", "i", "t", "y", "_", "n", "u", "m", "b", "e", "r">>,
      <<"t", "a", "x", "_", "i", "d">>,
      <<"p", "a", "s", "s", "p", "o", "r", "t">>,
      <<"d", "r", "i", "v", "e", "r", "_", "l", "i", "c", "e", "n", "s", "e">>,
      <<"n", "a", "t", "i", "o", "n", "a", "l", "_", "i", "d">>,
      <<"m", "e", "d", "i", "c", "a", "l", "_", "r", "e", "c", "o", "r", "d">>,
      <<"w", "o", "r", "k", "_", "n", "o", "t", "e", "s">>,
      <<"c", "o", "m", "m", "e", "n", "t", "s">>,
      <<"a", "d", "d", "i", "t", "i", "o", "n", "a", "l", "_", "c", "o", "m", "m", "e", "n", "t", "s">>,
      <<"r", "e", "s", "o", "l", "u", "t", "i", "o", "n", "_", "n", "o", "t", "e", "s">>,
      <<"c", "l", "o", "s", "e", "_", "n", "o", "t", "e", "s">> }

\* the three attributes set by __init__
EngineInit ==
    [sensitive_fields |-> SensitiveFields,
     classification_rules |-> ClassificationRules,
     masking_patterns |-> MaskingPatterns]

\* a caller that has called nothing yet: it holds no set and no result
NoHeld ==
    [ref |-> "none", copy |-> {}, last |-> NoResult]

NoMout == [first |-> NoResult, second |-> NoResult, calls |-> 0]

\* process_incident not yet called
NoProc ==
    [pc |-> "idle", level |-> "internal", analysis_type |-> "general",
     incident_dict |-> <<>>, compliance_result |-> NoResult, events |-> <<>>]

\* self.rate_limit_store = {} with the clock at 0 and no request seen
NoLimiter ==
    [store |-> [k \in {} |-> 0], now |-> 0, window |-> [k \in {} |-> 0],
     key |-> <<>>, allowed |-> "none"]

RestIdle ==
    /\ engine = EngineInit
    /\ held = NoHeld
    /\ mout = NoMout
    /\ proc = NoProc
    /\ limiter = NoLimiter

OtherIdle == ScoreIdle /\ StepIdle /\ RestIdle

\* a caller holding a record, before any call
Init ==
    /\ record \in Dicts(MaxFields)
    /\ heap = InitHeap
    /\ seed \in Seeds
    /\ pc = "idle"
    /\ classifications = <<>>
    /\ result = NoResult
    /\ target = "internal"
    /\ mutations = 0
    /\ FieldIdle
    /\ OtherIdle

\* classifications = await filter.classify_data(record)
ClassifyData ==
    /\ pc = "idle"
    /\ classifications' = classify_data(heap, record)
    /\ pc' = "classified"
    /\ UNCHANGED <<record, heap, seed, result, target, mutations, fieldVars, otherVars>>

\* result = await filter.filter_data(record, target_level)
FilterData(target_level) ==
    /\ pc = "idle"
    /\ LET out == filter_data(heap, seed, record, target_level)
       IN  /\ record' = out.data
           /\ result' = out.result
    /\ target' = target_level
    /\ pc' = "returned"
    /\ UNCHANGED <<heap, seed, classifications, mutations, fieldVars, otherVars>>

\* result.filtered_data[key] = value
CallerSetKey(key, value) ==
    /\ pc = "returned"
    /\ mutations < MaxMutations
    /\ result' = [result EXCEPT !.filtered_data = DictSet(@, key, value)]
    /\ mutations' = mutations + 1
    /\ UNCHANGED <<record, heap, seed, pc, classifications, target, fieldVars, otherVars>>

\* del result.filtered_data[key]
CallerDelKey(key) ==
    /\ pc = "returned"
    /\ mutations < MaxMutations
    /\ DictHas(result.filtered_data, key)
    /\ result' = [result EXCEPT !.filtered_data = DictDel(@, key)]
    /\ mutations' = mutations + 1
    /\ UNCHANGED <<record, heap, seed, pc, classifications, target, fieldVars, otherVars>>

\* result.filtered_data[key].append('y'), for a key holding a list
CallerAppendToValue(key) ==
    /\ pc = "returned"
    /\ mutations < MaxMutations
    /\ DictHas(result.filtered_data, key)
    /\ DictGet(result.filtered_data, key).k = "list"
    /\ heap' = [heap EXCEPT ![DictGet(result.filtered_data, key).addr] =
                                Append(@, <<"y">>)]
    /\ mutations' = mutations + 1
    /\ UNCHANGED <<record, seed, pc, classifications, result, target, fieldVars, otherVars>>

\* the calls of the engine
Next ==
    \/ ClassifyData
    \/ \E t \in ComplianceLevel : FilterData(t)

Spec == Init /\ [][Next]_vars

\* a call of filter_data followed by the caller's changes to filtered_data
NextCaller ==
    \/ \E t \in ComplianceLevel : FilterData(t)
    \/ \E key \in Names \cup {N_extra} : CallerSetKey(key, V_x)
    \/ \E key \in Names : CallerDelKey(key)
    \/ \E key \in Names : CallerAppendToValue(key)

SpecCaller == Init /\ [][NextCaller]_vars

\* ------------------------------------------------------------------------
\* The per-field operations on their own
\* ------------------------------------------------------------------------

InitField ==
    /\ fname \in FieldNames
    /\ fvalue \in FieldValues
    /\ fout = NoResult
    /\ heap = InitHeap
    /\ seed \in Seeds
    /\ pc = "idle"
    /\ record = <<>>
    /\ classifications = <<>>
    /\ result = NoResult
    /\ target = "internal"
    /\ mutations = 0
    /\ OtherIdle

\* self._classify_field(field_name, field_value)
ClassifyField ==
    /\ pc = "idle"
    /\ fout' = _classify_field(heap, fname, fvalue)
    /\ pc' = "classified"
    /\ UNCHANGED <<heap, seed, fname, fvalue, callVars, otherVars>>

\* self._mask_field_value(field_name, field_value)
MaskFieldValue ==
    /\ pc = "idle"
    /\ fout' = _mask_field_value(heap, seed, fname, fvalue)
    /\ pc' = "masked"
    /\ UNCHANGED <<heap, seed, fname, fvalue, callVars, otherVars>>

NextField == ClassifyField \/ MaskFieldValue

SpecField == InitField /\ [][NextField]_vars

\* ------------------------------------------------------------------------
\* Properties
\* ------------------------------------------------------------------------

\* the set of elements of a sequence
Range(q) == {q[i] : i \in 1..Len(q)}

\* the field names of the classifications with a given action, in order
RECURSIVE NamesWithAction(_, _, _)
NamesWithAction(cls, action, i) ==
    IF i > Len(cls) THEN <<>>
    ELSE (IF cls[i].action = action THEN <<cls[i].field_name>> ELSE <<>>)
         \o NamesWithAction(cls, action, i + 1)

\* some pattern of the set is found in the string the value is matched as
ValueMatches(pats, v) == \E pat \in pats : re_search(pat, ValueStr(heap, v))

RestrictedPatterns == {PatSSN, PatCreditCard, PatPassword}

ConfidentialPatterns == {PatEmail, PatPhone, PatIP}

\* filter_data has returned and the caller has not touched the result yet
Returned == pc = "returned" /\ mutations = 0

\* _classify_field has returned
FieldClassified == pc = "classified" /\ fname # <<>>

\* C1: a field whose stringified value matches a RESTRICTED pattern, or
\* whose lower-cased name is in the RESTRICTED name set, is classified
\* RESTRICTED with action remove, whatever else it matches.
C1_RestrictedWins ==
    (FieldClassified /\ (\/ lower(fname) \in RestrictedFields
                         \/ ValueMatches(RestrictedPatterns, fvalue)))
    => (fout.classification = "restricted" /\ fout.action = "remove")

\* a field named in the INTERNAL name set whose value is 123-45-6789
C1_Witness ==
    /\ FieldClassified
    /\ fname = N_department
    /\ fvalue = V_ssn
    /\ fout.classification = "restricted"

\* C2: filter_data leaves the caller's record (keys, values and the objects
\* the values refer to) as it was before the call; original_data of the
\* result equals that input and filtered_data has none of the removed keys.
C2_InputNotMutated ==
    [][(pc = "idle" /\ pc' = "returned")
       => /\ record' = record
          /\ heap' = heap
          /\ result'.original_data = record
          /\ \A n \in Range(result'.removed_fields) :
                ~DictHas(result'.filtered_data, n)]_vars

\* a record with a Password of secret123, filtered at target internal
C2_Witness ==
    /\ Returned
    /\ target = "internal"
    /\ DictHas(record, N_Password)
    /\ DictGet(record, N_Password) = V_secret123
    /\ result.removed_fields = <<N_Password>>
    /\ ~DictHas(result.filtered_data, N_Password)

\* C3: removed_fields is the list, in classification order, of the fields
\* whose action is remove, and none of them is a key of filtered_data.
C3_RemovedFields ==
    Returned =>
        /\ result.removed_fields = NamesWithAction(result.classifications, "remove", 1)
        /\ \A n \in Range(result.removed_fields) : ~DictHas(result.filtered_data, n)

\* two fields removed, a kept field between or around them
C3_Witness ==
    /\ Returned
    /\ Len(result.removed_fields) = 2
    /\ Len(record) = 2

\* the caller's record with every list reference replaced by the list
DeepValue(hp, v) == IF v.k = "list" THEN [k |-> "list", items |-> hp[v.addr]] ELSE v

DeepDict(hp, d) == [i \in 1..Len(d) |-> <<d[i][1], DeepValue(hp, d[i][2])>>]

\* C4: no later mutation of filtered_data, of its keys or of a value it
\* holds, changes the caller's original record.
C4_FilteredIsNewObject ==
    [][(pc = "returned" /\ pc' = "returned")
       => DeepDict(heap', record') = DeepDict(heap, record)]_vars

\* what the claim's reference scan gives for a field: the first tier, in the
\* order restricted, confidential, internal, public, whose name set has the
\* lower-cased name or one of whose patterns is found in the value
ReferenceOrder == <<"restricted", "confidential", "internal", "public">>

ReferenceRule(level) ==
    CHOOSE r \in Range(ClassificationRules) : r.level = level

ReferenceHit(level, n, v) ==
    \/ lower(n) \in ReferenceRule(level).fields
    \/ ValueMatches(Range(ReferenceRule(level).patterns), v)

ReferenceClassification(n, v) ==
    LET hits == {i \in 1..4 : ReferenceHit(ReferenceOrder[i], n, v)}
        first == CHOOSE i \in hits : \A j \in hits : i <= j
    IN  IF hits = {}
        THEN [field_name |-> n, classification |-> "internal", action |-> "allow",
              default |-> TRUE]
        ELSE [field_name |-> n, classification |-> ReferenceOrder[first],
              action |-> ReferenceRule(ReferenceOrder[first]).action,
              default |-> FALSE]

\* C5: _classify_field returns the tier and action of the reference scan,
\* with the field name in its original casing, and tier internal, action
\* allow, reason "Default classification" when no tier matches.
C5_MatchesReference ==
    FieldClassified =>
        LET ref == ReferenceClassification(fname, fvalue)
        IN  /\ fout.field_name = fname
            /\ fout.classification = ref.classification
            /\ fout.action = ref.action
            /\ ref.default <=> (fout.reason = <<"Default classification">>)

\* a capitalised name decided by the name set of a tier after the first
C5_Witness ==
    /\ FieldClassified
    /\ fname = N_Department
    /\ fout.field_name = N_Department
    /\ fout.classification = "internal"
    /\ fout.reason # <<"Default classification">>

\* C6: classify_data returns one classification per key of the record, in
\* the record's order.
C6_OnePerKey ==
    (pc = "classified" /\ fname = <<>>) =>
        /\ Len(classifications) = Len(record)
        /\ \A i \in 1..Len(record) : classifications[i].field_name = record[i][1]

\* a record of two fields, one of them None, has been classified
C6_Witness ==
    /\ pc = "classified"
    /\ Len(record) = 2
    /\ Len(classifications) = 2
    /\ record[1][2] = NoneV

\* C7: masked_fields is the list of the fields whose action is mask; each is
\* still a key of filtered_data, holding _mask_field_value(name, original).
C7_MaskedFields ==
    Returned =>
        /\ result.masked_fields = NamesWithAction(result.classifications, "mask", 1)
        /\ \A n \in Range(result.masked_fields) :
              /\ DictHas(result.filtered_data, n)
              /\ DictGet(result.filtered_data, n)
                     = _mask_field_value(heap, seed, n, DictGet(record, n))

\* a field masked because of its value, another because of its name
C7_Witness ==
    /\ Returned
    /\ result.masked_fields = <<N_notes, N_caller_id>>
    /\ DictGet(record, N_notes) = V_mail
    /\ DictGet(result.filtered_data, N_notes) = StrV(<<"*", "*", "*", "*", "*", "*">>)

\* C8: a field whose action is allow is in filtered_data with the value it
\* has in the input, and in neither removed_fields nor masked_fields.
C8_AllowUnchanged ==
    Returned =>
        \A i \in 1..Len(result.classifications) :
            LET c == result.classifications[i]
            IN  c.action = "allow" =>
                    /\ DictHas(result.filtered_data, c.field_name)
                    /\ DictGet(result.filtered_data, c.field_name)
                           = DictGet(record, c.field_name)
                    /\ c.field_name \notin Range(result.removed_fields)
                    /\ c.field_name \notin Range(result.masked_fields)

\* an allowed field next to a removed one
C8_Witness ==
    /\ Returned
    /\ Len(result.removed_fields) = 1
    /\ \E i \in 1..Len(result.classifications) :
          /\ result.classifications[i].action = "allow"
          /\ DictHas(result.filtered_data, result.classifications[i].field_name)

NoDuplicates(q) == \A i, j \in 1..Len(q) : q[i] = q[j] => i = j

\* C9: removed_fields and masked_fields have no name in common and neither
\* holds a name twice.
C9_DisjointLists ==
    Returned =>
        /\ Range(result.removed_fields) \cap Range(result.masked_fields) = {}
        /\ NoDuplicates(result.removed_fields)
        /\ NoDuplicates(result.masked_fields)

\* one field removed and one masked in the same call
C9_Witness ==
    /\ Returned
    /\ Len(result.removed_fields) = 1
    /\ Len(result.masked_fields) = 1

AllPublicNames(d) == \A i \in 1..Len(d) : lower(d[i][1]) \in PublicFields

CleanResult ==
    /\ IsOne(result.compliance_score)
    /\ result.removed_fields = <<>>
    /\ result.masked_fields = <<>>
    /\ result.filtered_data = result.original_data

\* C10 as stated: a record whose field names are all in the PUBLIC name set
\* gives score 1.0, nothing removed, nothing masked and filtered_data equal
\* to original_data, whatever the values.
C10_AllPublicAnyValue == (Returned /\ AllPublicNames(record)) => CleanResult

\* C10 amended: the same, for records none of whose values matches a
\* RESTRICTED or CONFIDENTIAL pattern.
C10_AllPublicCleanValues ==
    (/\ Returned
     /\ AllPublicNames(record)
     /\ \A i \in 1..Len(record) :
           ~ValueMatches(RestrictedPatterns \cup ConfidentialPatterns, record[i][2]))
    => CleanResult

\* two public fields with harmless values, filtered at target public
C10_Witness ==
    /\ Returned
    /\ target = "public"
    /\ Len(record) = 2
    /\ AllPublicNames(record)
    /\ \A i \in 1..Len(record) :
          ~ValueMatches(RestrictedPatterns \cup ConfidentialPatterns, record[i][2])
    /\ CleanResult

\* ------------------------------------------------------------------------
\* The scoring and validation loops on lists of classifications
\* ------------------------------------------------------------------------

\* the values of the action field of a DataClassification
Actions == {"allow", "mask", "remove", "encrypt"}

ClassOf(level, action) == DataClassification(N_notes, level, <<"rule">>, action)

\* largest length of the enumerated lists of classifications
MaxClassifications == 2

RECURSIVE ClassLists(_)
ClassLists(n) ==
    IF n = 0 THEN {<<>>}
    ELSE LET smaller == ClassLists(n - 1)
         IN  smaller \cup
             {Append(x[1], ClassOf(x[2], x[3])) :
                 x \in {y \in smaller \X ComplianceLevel \X Actions :
                           Len(y[1]) = n - 1}}

\* one restricted field with action remove and nine public fields
OneRestrictedNinePublic ==
    <<ClassOf("restricted", "remove")>> \o [i \in 1..9 |-> ClassOf("public", "allow")]

InitScore ==
    /\ clist \in ClassLists(MaxClassifications) \cup {OneRestrictedNinePublic}
    /\ ctier \in ComplianceLevel
    /\ cout = NoResult
    /\ heap = InitHeap
    /\ seed \in {3}
    /\ pc = "idle"
    /\ CallIdle
    /\ FieldIdle
    /\ StepIdle
    /\ RestIdle

\* self._calculate_compliance_score(classifications, target_level)
CalculateScore ==
    /\ pc = "idle"
    /\ cout' = [score |-> _calculate_compliance_score(clist, ctier)]
    /\ pc' = "scored"
    /\ UNCHANGED <<serviceVars, heap, seed, clist, ctier, callVars, fieldVars, stepVars,
                   engineVars, mout>>

\* the loop of validate_compliance over the classifications
ValidateClassifications ==
    /\ pc = "idle"
    /\ cout' = [valid |-> ValidateFrom(clist, ctier, 1)]
    /\ pc' = "validated"
    /\ UNCHANGED <<serviceVars, heap, seed, clist, ctier, callVars, fieldVars, stepVars,
                   engineVars, mout>>

NextScore == CalculateScore \/ ValidateClassifications

SpecScore == InitScore /\ [][NextScore]_vars

\* ------------------------------------------------------------------------
\* validate_compliance on records
\* ------------------------------------------------------------------------

\* ok = await filter.validate_compliance(record, required_level)
ValidateCompliance(required_level) ==
    /\ pc = "idle"
    /\ cout' = [valid |-> validate_compliance(heap, record, required_level)]
    /\ ctier' = required_level
    /\ pc' = "validated"
    /\ UNCHANGED <<serviceVars, heap, seed, clist, callVars, fieldVars, stepVars,
                   engineVars, mout>>

NextValidate == \E t \in ComplianceLevel : ValidateCompliance(t)

SpecValidate == Init /\ [][NextValidate]_vars

\* the order PUBLIC < INTERNAL < CONFIDENTIAL < RESTRICTED of the tiers
TierRank(t) ==
    CASE t = "public" -> 0
      [] t = "internal" -> 1
      [] t = "confidential" -> 2
      [] t = "restricted" -> 3

\* a classification counts as compliant at target t
Compliant(c, t) ==
    \/ ~(TierRank(c.classification) > TierRank(t))
    \/ c.action \in {"mask", "remove", "encrypt"}

CompliantSet(cl, t) == {i \in 1..Len(cl) : Compliant(cl[i], t)}

Scored == pc = "scored"

\* C11: the score is 1.0 for an empty list and otherwise the number of
\* compliant classifications over the total, a classification being
\* compliant iff its tier is not above the target or its action is mask,
\* remove or encrypt; one restricted/remove with nine public/allow scores
\* 1.0 at target internal.
C11_ScoreFormula ==
    Scored =>
        /\ clist = <<>> => cout.score = [num |-> 1, den |-> 1]
        /\ clist # <<>> =>
              cout.score = [num |-> Cardinality(CompliantSet(clist, ctier)),
                            den |-> Len(clist)]
        /\ (clist = OneRestrictedNinePublic /\ ctier = "internal")
              => IsOne(cout.score)

\* the record of one restricted/remove and nine public/allow at internal
C11_Witness ==
    /\ Scored
    /\ clist = OneRestrictedNinePublic
    /\ ctier = "internal"
    /\ cout.score = [num |-> 10, den |-> 10]

\* C12: 0 <= compliant_count <= total_count, so the score is in [0, 1]; it
\* is 1.0 when every classification is compliant and 0.0 when the list is
\* not empty and none is.
C12_ScoreRange ==
    Scored =>
        /\ 0 <= cout.score.num
        /\ cout.score.num <= cout.score.den
        /\ cout.score.den > 0
        /\ CompliantSet(clist, ctier) = 1..Len(clist) => IsOne(cout.score)
        /\ (clist # <<>> /\ CompliantSet(clist, ctier) = {}) => cout.score.num = 0

\* a list none of whose classifications is compliant scores 0.0
C12_Witness ==
    /\ Scored
    /\ Len(clist) = 2
    /\ CompliantSet(clist, ctier) = {}
    /\ cout.score.num = 0

\* some classification is above the required tier and allowed
Violation(cl, t) ==
    \E i \in 1..Len(cl) :
        TierRank(cl[i].classification) > TierRank(t) /\ cl[i].action = "allow"

\* C13: validate_compliance is false iff some classification has a tier
\* strictly above the required tier and action allow; a confidential field
\* with action allow gives false at public and true at restricted.
C13_ValidateIff ==
    (pc = "validated" /\ record = <<>>) =>
        /\ cout.valid = ~Violation(clist, ctier)
        /\ (clist = <<ClassOf("confidential", "allow")>> /\ ctier = "public")
              => cout.valid = FALSE
        /\ (clist = <<ClassOf("confidential", "allow")>> /\ ctier = "restricted")
              => cout.valid = TRUE

\* a confidential field with action allow, required tier public
C13_Witness ==
    /\ pc = "validated"
    /\ clist = <<ClassOf("confidential", "allow")>>
    /\ ctier = "public"
    /\ cout.valid = FALSE

\* every field of the record gets the default classification
AllDefault(hp, d) ==
    \A i \in 1..Len(d) :
        _classify_field(hp, d[i][1], d[i][2]).reason = <<"Default classification">>

\* C14 as stated: validate_compliance is true for every record all of whose
\* fields receive the default classification, whatever the required tier.
C14_AllDefaultAnyTier ==
    (pc = "validated" /\ AllDefault(heap, record)) => cout.valid = TRUE

\* C14 amended: the same for a required tier of internal, confidential or
\* restricted; at required tier public it is true only for the empty record.
C14_AllDefaultFromInternal ==
    (pc = "validated" /\ AllDefault(heap, record)) =>
        /\ ctier # "public" => cout.valid = TRUE
        /\ ctier = "public" => (cout.valid = (record = <<>>))

\* a record of one field with the default classification, required internal
C14_Witness ==
    /\ pc = "validated"
    /\ Len(record) = 1
    /\ AllDefault(heap, record)
    /\ ctier = "internal"
    /\ cout.valid = TRUE

\* ------------------------------------------------------------------------
\* filter_data statement by statement, for callers running at the same time
\* ------------------------------------------------------------------------

\* the records the concurrent callers pass
StepRecords ==
    { <<>>,
      <<<<N_notes, V_x>>>>,
      <<<<N_Password, V_secret123>>, <<N_notes, RefV(1)>>>>,
      <<<<N_caller_id, V_mail>>, <<N_number, V_ssn>>>>,
      <<<<N_notes, V_mail>>, <<N_State, NoneV>>>> }

\* a value that is not a member of ComplianceLevel
V_badTier == "secret"

\* every call has locals of its own: what is shared by all the calls
FrameOf_shared(c) == 1

\* the frame holding the locals of the call of caller c
FrameOf(c) == c

InProgress(c) == calls[c].pc \in {"classify", "copy", "loop", "score"}

\* caller c takes a step while another call is in progress
Overlap(c) == \E o \in Callers \ {c} : InProgress(o)

\* ComplianceLevel(value): the enum lookup, ValueError for a non-member
IsComplianceLevel(value) == value \in ComplianceLevel

\* filter.filter_data(data, target_level) is entered
CallFilterData(c, data, target_level) ==
    /\ calls[c].pc = "idle"
    /\ calls' = [calls EXCEPT ![c] =
                    [pc |-> "classify", arg |-> data, data |-> data,
                     target |-> target_level, out |-> NoResult,
                     overlapped |-> Overlap(c)]]
    /\ frames' = [frames EXCEPT ![FrameOf(c)] = NoFrame]
    /\ UNCHANGED <<serviceVars, heap, seed, pc, callVars, fieldVars, scoreVars, engineVars, mout>>

\* processor.filter_incident_data_only(sys_id, compliance_level): the level
\* goes through ComplianceLevel(compliance_level) before filter_data is called
CallFilterIncidentDataOnly(c, data, compliance_level) ==
    /\ calls[c].pc = "idle"
    /\ calls' = [calls EXCEPT ![c] =
                    [pc |-> IF IsComplianceLevel(compliance_level)
                            THEN "classify" ELSE "raised",
                     arg |-> data, data |-> data, target |-> compliance_level,
                     out |-> IF IsComplianceLevel(compliance_level)
                             THEN NoResult ELSE [error |-> "ValueError"],
                     overlapped |-> Overlap(c)]]
    /\ frames' = [frames EXCEPT ![FrameOf(c)] = NoFrame]
    /\ UNCHANGED <<serviceVars, heap, seed, pc, callVars, fieldVars, scoreVars, engineVars, mout>>

\* classifications = await self.classify_data(data)
StepClassify(c) ==
    /\ calls[c].pc = "classify"
    /\ frames' = [frames EXCEPT
                     ![FrameOf(c)].classifications = classify_data(heap, calls[c].data),
                     ![FrameOf(c)].worked = TRUE]
    /\ calls' = [calls EXCEPT ![c].pc = "copy",
                              ![c].overlapped = @ \/ Overlap(c)]
    /\ UNCHANGED <<serviceVars, heap, seed, pc, callVars, fieldVars, scoreVars, engineVars, mout>>

\* filtered_data = data.copy(); removed_fields = []; masked_fields = []
StepCopy(c) ==
    /\ calls[c].pc = "copy"
    /\ LET copied == dict_copy([data |-> calls[c].data, filtered |-> <<>>], "data")
       IN  frames' = [frames EXCEPT
                         ![FrameOf(c)].acc =
                             [cells |-> copied.cells, ref |-> copied.ref,
                              removed_fields |-> <<>>, masked_fields |-> <<>>]]
    /\ calls' = [calls EXCEPT ![c].pc = "loop",
                              ![c].overlapped = @ \/ Overlap(c)]
    /\ UNCHANGED <<serviceVars, heap, seed, pc, callVars, fieldVars, scoreVars, engineVars, mout>>

\* one iteration of  for classification in classifications, or its end
StepLoop(c) ==
    /\ calls[c].pc = "loop"
    /\ LET f == frames[FrameOf(c)]
       IN  IF f.i > Len(f.classifications)
           THEN /\ calls' = [calls EXCEPT ![c].pc = "score",
                                          ![c].overlapped = @ \/ Overlap(c)]
                /\ UNCHANGED frames
           ELSE LET next == ApplyOne(heap, seed, f.classifications[f.i], f.acc)
                IN  /\ frames' = [frames EXCEPT ![FrameOf(c)].acc = next,
                                                ![FrameOf(c)].i = f.i + 1]
                    /\ calls' = [calls EXCEPT ![c].data = next.cells["data"],
                                              ![c].overlapped = @ \/ Overlap(c)]
    /\ UNCHANGED <<serviceVars, heap, seed, pc, callVars, fieldVars, scoreVars, engineVars, mout>>

\* level_hierarchy[target_level] raises KeyError for a key it does not have;
\* it is evaluated for the first classification of a non-empty list
ScoreRaises(cs, target_level) ==
    Len(cs) > 0 /\ target_level \notin DOMAIN level_hierarchy

\* compliance_score = ...; result = ComplianceResult(...); return result
StepScore(c) ==
    /\ calls[c].pc = "score"
    /\ LET f == frames[FrameOf(c)]
       IN  IF ScoreRaises(f.classifications, calls[c].target)
           THEN calls' = [calls EXCEPT ![c].pc = "raised",
                                       ![c].out = [error |-> "KeyError"],
                                       ![c].overlapped = @ \/ Overlap(c)]
           ELSE calls' = [calls EXCEPT
                    ![c].pc = "returned",
                    ![c].overlapped = @ \/ Overlap(c),
                    ![c].out =
                        [original_data |-> calls[c].data,
                         filtered_data |-> f.acc.cells[f.acc.ref],
                         removed_fields |-> f.acc.removed_fields,
                         masked_fields |-> f.acc.masked_fields,
                         classifications |-> f.classifications,
                         compliance_score |->
                             _calculate_compliance_score(f.classifications,
                                                         calls[c].target)]]
    /\ UNCHANGED <<serviceVars, heap, seed, pc, callVars, fieldVars, scoreVars, frames,
                   engineVars, mout>>

StepInit ==
    /\ StepIdle
    /\ heap = InitHeap
    /\ seed \in Seeds
    /\ pc = "idle"
    /\ CallIdle
    /\ FieldIdle
    /\ ScoreIdle
    /\ RestIdle

Steps(c) == StepClassify(c) \/ StepCopy(c) \/ StepLoop(c) \/ StepScore(c)

\* two callers, each with a record of its own and a valid level
NextConcurrent ==
    \E c \in Callers :
        \/ \E d \in StepRecords, t \in {"public", "internal"} : CallFilterData(c, d, t)
        \/ Steps(c)

SpecConcurrent == StepInit /\ [][NextConcurrent]_vars

\* one caller passing any value as level, to the engine or to the processor
NextTier ==
    \/ \E d \in StepRecords, t \in ComplianceLevel \cup {V_badTier} :
          \/ CallFilterData(1, d, t)
          \/ CallFilterIncidentDataOnly(1, d, t)
    \/ Steps(1)

SpecTier == StepInit /\ [][NextTier]_vars

\* ------------------------------------------------------------------------
\* Properties of the calls taken statement by statement
\* ------------------------------------------------------------------------

\* C15: a level that is not one of the four tiers always ends in an error
\* raised before any classification or filtering is done; for no record,
\* the empty one included, is the call answered with a result.
C15_InvalidTierFailsFast ==
    \A c \in Callers :
        ~IsComplianceLevel(calls[c].target) =>
            /\ calls[c].pc \in {"classify", "raised"}
            /\ ~frames[FrameOf(c)].worked
            /\ calls[c].out \in {NoResult, [error |-> "ValueError"],
                                 [error |-> "KeyError"]}

\* what the call of caller c returns when it runs alone
Alone(c) == filter_data(heap, seed, calls[c].arg, calls[c].target).result

\* C17: with two callers running filter_data at the same time on records of
\* their own, in every interleaving each call returns the ComplianceResult
\* it returns when run alone, and no record is changed by either call.
C17_ConcurrentSameAsAlone ==
    \A c \in Callers :
        /\ calls[c].data = calls[c].arg
        /\ calls[c].pc = "returned" => calls[c].out = Alone(c)
        /\ calls[c].pc # "returned" => calls[c].out = NoResult

\* both calls have returned after running interleaved, one of them having
\* removed a field and the other having masked one
C17_Witness ==
    /\ \A c \in Callers : calls[c].pc = "returned" /\ calls[c].overlapped
    /\ calls[1].arg # calls[2].arg
    /\ calls[1].out.removed_fields # <<>>
    /\ calls[2].out.masked_fields # <<>>

\* ------------------------------------------------------------------------
\* Properties of single field calls, continued
\* ------------------------------------------------------------------------

\* C16: classification completes with a classification for every field name
\* and every value (null, number, string, nested object); a null value is
\* matched as the empty string, so that no value pattern decides its
\* classification, and every other value is matched through str(value).
C16_ValuesCoerced ==
    FieldClassified =>
        /\ fout.field_name = fname
        /\ fout.classification \in ComplianceLevel
        /\ fout.action \in Actions
        /\ fvalue = NoneV =>
              /\ fout = ClassifyFrom(1, fname, lower(fname), <<>>)
              /\ fout.reason[1] # "Field value matches "
        /\ fvalue # NoneV =>
              fout = ClassifyFrom(1, fname, lower(fname), py_str(heap, fvalue))

\* a nested value under a name of no table is classified by its str() text
C16_Witness ==
    /\ FieldClassified
    /\ fname = N_notes
    /\ fvalue = RefV(2)
    /\ fout.classification = "restricted"

FieldMasked == pc = "masked" /\ fname # <<>>

JohnMasked == FieldMasked /\ fname = N_email /\ fvalue = V_john

AtExampleCom ==
    <<"@", "e", "x", "a", "m", "p", "l", "e", ".", "c", "o", "m">>

\* C20 as stated: masking "john.doe@example.com" under the name "email"
\* gives the letter j, fifteen asterisks, the letter e, then @example.com.
C20_FifteenAsterisks ==
    JohnMasked => fout = StrV(<<"j">> \o Repeat("*", 15) \o <<"e">> \o AtExampleCom)

\* C20 amended: masking "john.doe@example.com" under the name "email" gives
\* the letter j, six asterisks (the eight characters of the local part less
\* its first and last), the letter e, then @example.com.
C20_SixAsterisks ==
    JohnMasked => fout = StrV(<<"j">> \o Repeat("*", 6) \o <<"e">> \o AtExampleCom)

C20_Witness ==
    /\ JohnMasked
    /\ Len(fout.s) = Len(V_john.s)
    /\ fout.s[1] = "j"
    /\ fout.s[2] = "*"

\* ------------------------------------------------------------------------
\* Repeated masking calls on one engine
\* ------------------------------------------------------------------------

\* the engine calls made in one run: the two compared ones and those between
MaxCalls == 3

\* a seed of str hashing that moves with every call
HashSeed_perCall == seed + mout.calls

\* hash(str(x)): the seed of str hashing is fixed when the process starts
HashSeed == seed

\* the arguments of the calls made between the two compared ones
BetweenNames == {N_email, N_caller_id}
BetweenValues == {V_mail, V_ssn}

\* first call of self._mask_field_value(field_name, field_value)
MaskFirst ==
    /\ pc = "idle"
    /\ mout' = [first |-> _mask_field_value(heap, HashSeed, fname, fvalue),
                second |-> NoResult, calls |-> mout.calls + 1]
    /\ pc' = "first"
    /\ UNCHANGED <<serviceVars, heap, seed, fieldVars, callVars, scoreVars, stepVars, engineVars>>

\* another call of the engine, with other arguments
CallBetween(field_name, field_value) ==
    /\ pc \in {"first", "between"}
    /\ mout.calls < MaxCalls - 1
    /\ \/ fout' = _mask_field_value(heap, HashSeed, field_name, field_value)
       \/ fout' = _classify_field(heap, field_name, field_value)
    /\ mout' = [mout EXCEPT !.calls = @ + 1]
    /\ pc' = "between"
    /\ UNCHANGED <<serviceVars, heap, seed, fname, fvalue, callVars, scoreVars, stepVars, engineVars>>

\* second call of self._mask_field_value(field_name, field_value)
MaskSecond ==
    /\ pc \in {"first", "between"}
    /\ mout' = [mout EXCEPT
                   !.second = _mask_field_value(heap, HashSeed, fname, fvalue),
                   !.calls = @ + 1]
    /\ pc' = "second"
    /\ UNCHANGED <<serviceVars, heap, seed, fieldVars, callVars, scoreVars, stepVars, engineVars>>

NextRepeat ==
    \/ MaskFirst
    \/ \E n \in BetweenNames, v \in BetweenValues : CallBetween(n, v)
    \/ MaskSecond

SpecRepeat == InitField /\ [][NextRepeat]_vars

set_copy_alias(cells) == [cells |-> cells, ref |-> "engine"]

\* return self._sensitive_fields.copy(): a new set object with the same members
set_copy(cells) == [cells |-> [cells EXCEPT !.copy = cells.engine], ref |-> "copy"]

\* the set objects: the one of the engine and the one made by copy()
SetCells == [engine |-> engine.sensitive_fields, copy |-> held.copy]

\* masked_data = data.copy(); every key of fields_to_mask present is masked
mask_sensitive_fields(hp, sd, data, fields_to_mask) ==
    [i \in 1..Len(data) |->
        IF data[i][1] \in fields_to_mask
        THEN <<data[i][1], _mask_field_value(hp, sd, data[i][1], data[i][2])>>
        ELSE data[i]]

InitEngine ==
    /\ record \in StepRecords
    /\ heap = InitHeap
    /\ seed \in Seeds
    /\ pc = "idle"
    /\ classifications = <<>>
    /\ result = NoResult
    /\ target = "internal"
    /\ mutations = 0
    /\ FieldIdle
    /\ OtherIdle

\* fields = filter.get_sensitive_fields()
GetSensitiveFields ==
    /\ LET got == set_copy(SetCells)
       IN  /\ engine' = [engine EXCEPT !.sensitive_fields = got.cells.engine]
           /\ held' = [held EXCEPT !.ref = got.ref, !.copy = got.cells.copy]
    /\ UNCHANGED <<serviceVars, heap, seed, pc, callVars, fieldVars, scoreVars, stepVars, mout>>

\* fields.add(name) or fields.discard(name) on the set the caller was given
CallerMutatesSet(name, adding) ==
    /\ held.ref # "none"
    /\ LET now == SetCells[held.ref]
           after == [SetCells EXCEPT ![held.ref] =
                        IF adding THEN now \cup {name} ELSE now \ {name}]
       IN  /\ engine' = [engine EXCEPT !.sensitive_fields = after.engine]
           /\ held' = [held EXCEPT !.copy = after.copy]
    /\ UNCHANGED <<serviceVars, heap, seed, pc, callVars, fieldVars, scoreVars, stepVars, mout>>

\* masked = await filter.mask_sensitive_fields(record, fields)
MaskSensitiveFields ==
    /\ pc = "idle"
    /\ held.ref # "none"
    /\ result' = [masked_data |->
                     mask_sensitive_fields(heap, seed, record, SetCells[held.ref])]
    /\ pc' = "masked"
    /\ UNCHANGED <<record, heap, seed, classifications, target, mutations,
                   fieldVars, otherVars>>

\* the caller keeps what filter_data returned and goes on to its next call
NextCall ==
    /\ pc # "idle"
    /\ held' = [held EXCEPT !.last =
                   IF pc = "returned"
                   THEN [target |-> target, result |-> result] ELSE @]
    /\ pc' = "idle"
    /\ classifications' = <<>>
    /\ result' = NoResult
    /\ target' = "internal"
    /\ cout' = NoResult
    /\ ctier' = "internal"
    /\ UNCHANGED <<serviceVars, record, heap, seed, mutations, fieldVars, clist, stepVars,
                   engine, mout>>

NextEngine ==
    \/ ClassifyData
    \/ \E t \in ComplianceLevel : FilterData(t)
    \/ \E t \in ComplianceLevel : ValidateCompliance(t)
    \/ MaskSensitiveFields
    \/ GetSensitiveFields
    \/ \E n \in {N_extra, N_email}, adding \in BOOLEAN : CallerMutatesSet(n, adding)
    \/ NextCall

SpecEngine == InitEngine /\ [][NextEngine]_vars

\* C18: after any sequence of calls of the engine, and whatever the caller
\* does to the set get_sensitive_fields gave it, the classification rules,
\* the masking table and the sensitive field set of the engine are those of
\* construction, and filter_data called again with the same record and tier
\* returns the result it returned before.
C18_TablesUnchanged ==
    /\ engine = EngineInit
    /\ (pc = "returned" /\ held.last # NoResult /\ held.last.target = target)
          => result = held.last.result

\* filter_data has returned a second time for a record that loses a field,
\* after the caller changed the set it was given
C18_Witness ==
    /\ pc = "returned"
    /\ held.last # NoResult
    /\ held.last.target = target
    /\ result.removed_fields # <<>>
    /\ held.ref = "copy"
    /\ N_extra \in held.copy
    /\ N_email \notin held.copy

\* ------------------------------------------------------------------------
\* The masking strategies
\* ------------------------------------------------------------------------

\* the strategy the masking table gives a field name, written out key by key
StrategyKey(field_name) ==
    LET l == lower(field_name)
    IN  IF Contains(l, <<"e", "m", "a", "i", "l">>) THEN "email"
        ELSE IF Contains(l, <<"p", "h", "o", "n", "e">>) THEN "phone"
        ELSE IF Contains(l, N_ip_address) THEN "ip_address"
        ELSE IF Contains(l, N_caller_id) THEN "caller_id"
        ELSE IF Contains(l, N_employee_number) THEN "employee_number"
        ELSE "default"

\* C21: mask_field_value applies the first strategy, in the order email,
\* phone, ip_address, caller_id, employee_number, default, whose key is a
\* substring of the lower-cased field name, and the default strategy when
\* no key is one.
C21_FirstStrategyWins ==
    FieldMasked =>
        fout = StrV(mask_func(seed, StrategyKey(fname), py_str(heap, fvalue)))

\* a name holding both phone and email is masked as an email
C21_Witness ==
    /\ FieldMasked
    /\ fname = N_phone_email
    /\ fvalue = V_mail
    /\ fout = StrV(<<"*", "@", "b", ".", "c", "o">>)

\* the characters and the largest length of the values given to the email
\* strategy
EmailChars == {"a", "b", "@"}

MaxEmailLen == 5

RECURSIVE Strings(_, _)
Strings(chars, n) ==
    IF n = 0 THEN {<<>>}
    ELSE LET shorter == Strings(chars, n - 1)
         IN  shorter \cup {Append(t, c) : t \in {u \in shorter : Len(u) = n - 1},
                                          c \in chars}

\* a field masked by the email strategy, for every short value
InitEmail ==
    /\ fname \in {N_email, N_work_email}
    /\ fvalue \in {StrV(t) : t \in Strings(EmailChars, MaxEmailLen)}
    /\ fout = NoResult
    /\ heap = InitHeap
    /\ seed = 3
    /\ pc = "idle"
    /\ CallIdle
    /\ OtherIdle

NextEmail == MaskFieldValue

SpecEmail == InitEmail /\ [][NextEmail]_vars

\* C22: for a value holding '@' the email strategy splits at the first '@',
\* keeps the domain, keeps the first and the last character of a local part
\* of more than 2 characters with one asterisk for each character between,
\* replaces every character of a shorter local part by an asterisk, and
\* returns a string as long as the value.
C22_EmailMask ==
    (FieldMasked /\ "@" \in Range(fvalue.s)) =>
        LET s == fvalue.s
            out == fout.s
            at == CHOOSE i \in 1..Len(s) :
                      s[i] = "@" /\ \A j \in 1..(i - 1) : s[j] # "@"
            n == at - 1
        IN  /\ Len(out) = Len(s)
            /\ \A i \in at..Len(s) : out[i] = s[i]
            /\ n > 2 => /\ out[1] = s[1]
                        /\ out[n] = s[n]
                        /\ \A i \in 2..(n - 1) : out[i] = "*"
            /\ n <= 2 => \A i \in 1..n : out[i] = "*"

\* a value with two '@' and a local part of three characters
C22_Witness ==
    /\ FieldMasked
    /\ fname = N_work_email
    /\ fvalue = StrV(<<"a", "a", "b", "@", "@">>)
    /\ fout = StrV(<<"a", "*", "b", "@", "@">>)

\* the name holds none of the keys of the specific strategies
NoStrategyName(field_name) ==
    LET l == lower(field_name)
    IN  \A k \in {N_email, <<"p", "h", "o", "n", "e">>, N_ip_address,
                  N_caller_id, N_employee_number} : ~Contains(l, k)

AnalysisTypes == {"general", "classification"}

AgenticTypes == {"priority_assessment", "classification", "recommendations"}

\* everything but proc
notProc ==
    <<limiter, heap, seed, pc, callVars, fieldVars, scoreVars, stepVars,
      engineVars, mout>>

Event(name, arg) == [name |-> name, arg |-> arg]

NoArg == [obj |-> "none", value |-> <<>>]

\* the AI services are handed the incident as fetched
AiArgument_unfiltered(p) ==
    [obj |-> "incident_dict", value |-> p.incident_dict]

\* the argument of analyze_incident and of the agentic calls:
\* compliance_result.filtered_data
AiArgument(p) ==
    [obj |-> "filtered_data", value |-> p.compliance_result.filtered_data]

\* await processor.process_incident(request)
ProcessIncident(compliance_level, analysis_type) ==
    /\ proc.pc = "idle"
    /\ proc' = [proc EXCEPT !.pc = "fetch", !.level = compliance_level,
                            !.analysis_type = analysis_type]
    /\ UNCHANGED notProc

\* incident = await self.servicenow.get_incident(sys_id); model_dump()
FetchIncident(incident) ==
    /\ proc.pc = "fetch"
    /\ proc' = [proc EXCEPT !.pc = "filter", !.incident_dict = incident,
                            !.events = Append(@, Event("fetch", NoArg))]
    /\ UNCHANGED notProc

\* get_incident raises (incident not found, ServiceNow not reachable)
FetchFails ==
    /\ proc.pc = "fetch"
    /\ proc' = [proc EXCEPT !.pc = "raised",
                            !.events = Append(@, Event("fetch_failed", NoArg))]
    /\ UNCHANGED notProc

\* compliance_result = await self.compliance_filter.filter_data(
\*     incident_dict, ComplianceLevel(request.compliance_level))
ApplyCompliance ==
    /\ proc.pc = "filter"
    /\ IF IsComplianceLevel(proc.level)
       THEN proc' = [proc EXCEPT
                !.pc = "ai",
                !.compliance_result =
                    filter_data(heap, seed, proc.incident_dict, proc.level).result,
                !.events = Append(@, Event("filter", NoArg))]
       ELSE proc' = [proc EXCEPT
                !.pc = "raised",
                !.events = Append(@, Event("filter_failed", NoArg))]
    /\ UNCHANGED notProc

\* ai_analysis = await self.openai_service.analyze_incident(
\*     compliance_result.filtered_data, request.analysis_type)
\* the call, or the parsing of its answer, may raise
AiAnalysis(fails) ==
    /\ proc.pc = "ai"
    /\ proc' = [proc EXCEPT !.pc = IF fails THEN "raised" ELSE "agentic",
                            !.events = Append(@, Event("ai", AiArgument(proc)))]
    /\ UNCHANGED notProc

\* the agentic call chosen by request.analysis_type, skipped for other types
AgenticInsights(fails) ==
    /\ proc.pc = "agentic"
    /\ IF proc.analysis_type \in AgenticTypes
       THEN proc' = [proc EXCEPT
                !.pc = IF fails THEN "raised" ELSE "history",
                !.events = Append(@, Event("agentic", AiArgument(proc)))]
       ELSE /\ ~fails
            /\ proc' = [proc EXCEPT !.pc = "history"]
    /\ UNCHANGED notProc

\* history = ... ; return {...}
ReturnResponse ==
    /\ proc.pc = "history"
    /\ proc' = [proc EXCEPT !.pc = "returned",
                            !.events = Append(@, Event("return", NoArg))]
    /\ UNCHANGED notProc

NextProcess ==
    \/ \E l \in ComplianceLevel \cup {V_badTier}, a \in AnalysisTypes :
          ProcessIncident(l, a)
    \/ \E d \in StepRecords : FetchIncident(d)
    \/ FetchFails
    \/ ApplyCompliance
    \/ \E fails \in BOOLEAN : AiAnalysis(fails)
    \/ \E fails \in BOOLEAN : AgenticInsights(fails)
    \/ ReturnResponse

SpecProcess == StepInit /\ [][NextProcess]_vars

EventNames == {proc.events[i].name : i \in 1..Len(proc.events)}

\* C24: in process_incident the incident is fetched, then filtered, then
\* given to the AI services: no AI or agentic call is made before
\* filter_data has returned, each of these calls is handed filtered_data as
\* filter_data computed it and never the incident as fetched, and no such
\* call is made when the fetch or the filter fails.
C24_FilterBeforeAi ==
    /\ \A i \in 1..Len(proc.events) :
          /\ proc.events[i].name = "filter" =>
                \E j \in 1..(i - 1) : proc.events[j].name = "fetch"
          /\ proc.events[i].name \in {"ai", "agentic"} =>
                /\ \E j \in 1..(i - 1) : proc.events[j].name = "filter"
                /\ proc.events[i].arg =
                      [obj |-> "filtered_data",
                       value |-> filter_data(heap, seed, proc.incident_dict,
                                             proc.level).result.filtered_data]
    /\ ({"fetch_failed", "filter_failed"} \cap EventNames # {})
          => ({"ai", "agentic"} \cap EventNames = {})

\* a request has gone through all its steps for an incident that loses a
\* field on the way to the AI services
C24_Witness ==
    /\ proc.pc = "returned"
    /\ proc.compliance_result.removed_fields # <<>>
    /\ "agentic" \in EventNames
    /\ proc.events[3].name = "ai"
    /\ proc.events[3].arg.value # proc.incident_dict

\* ------------------------------------------------------------------------
\* The score and the validation together
\* ------------------------------------------------------------------------

Validated == pc = "validated"

\* the score of the record at the tier of the validation
RecordScore ==
    _calculate_compliance_score(classify_data(heap, record), ctier)

\* C25: validate_compliance(record, t) is true iff the score of
\* classify_data(record) at t is 1.0.
C25_ValidIffScoreOne ==
    Validated => (cout.valid <=> IsOne(RecordScore))

\* a record of two fields, one of them compliant, refused at public
C25_Witness ==
    /\ Validated
    /\ ctier = "public"
    /\ cout.valid = FALSE
    /\ RecordScore = [num |-> 1, den |-> 2]

\* C28: every classification has action remove exactly when its tier is
\* restricted, mask exactly when it is confidential, and allow when it is
\* internal or public; so at a tier of internal, confidential or restricted
\* every record scores 1.0 and validates, and a lower score or a refusal
\* occurs at tier public only.
C28_ActionsFollowTiers ==
    Validated =>
        LET cl == classify_data(heap, record)
        IN  /\ \A i \in 1..Len(cl) :
                  /\ cl[i].action = "remove" <=> cl[i].classification = "restricted"
                  /\ cl[i].action = "mask" <=> cl[i].classification = "confidential"
                  /\ cl[i].classification \in {"internal", "public"}
                        => cl[i].action = "allow"
            /\ ctier # "public" => cout.valid /\ IsOne(RecordScore)
            /\ (~cout.valid \/ ~IsOne(RecordScore)) => ctier = "public"

\* a record with a restricted and a confidential field accepted at internal
C28_Witness ==
    /\ Validated
    /\ ctier = "internal"
    /\ cout.valid
    /\ {c.classification : c \in Range(classify_data(heap, record))}
          = {"restricted", "confidential"}

\* t1 <= t2 in the order public < internal < confidential < restricted
TierLeq(t1, t2) == TierRank(t1) <= TierRank(t2)

\* C29: for every classification list the score does not go down and a
\* passed validation stays passed when the tier goes up in the order
\* public < internal < confidential < restricted, and the score at
\* restricted is 1.0.
C29_MonotoneInTier ==
    /\ Scored =>
          /\ \A t2 \in ComplianceLevel :
                TierLeq(ctier, t2) =>
                    LET s2 == _calculate_compliance_score(clist, t2)
                    IN  s2.num * cout.score.den >= cout.score.num * s2.den
          /\ ctier = "restricted" => IsOne(cout.score)
    /\ (Validated /\ record = <<>> /\ cout.valid) =>
          \A t2 \in ComplianceLevel :
              TierLeq(ctier, t2) => ValidateFrom(clist, t2, 1)

\* a list scoring 0 at public and 1/2 at internal
C29_Witness ==
    /\ Scored
    /\ ctier = "public"
    /\ cout.score.num = 0
    /\ _calculate_compliance_score(clist, "internal") = [num |-> 1, den |-> 2]

\* ------------------------------------------------------------------------
\* What filter_data lets through
\* ------------------------------------------------------------------------

\* C26: for every record and target tier no key of filtered_data has a
\* lower-cased name in the restricted name set, whatever its casing in the
\* input, and none has an original value whose string form matches a
\* restricted pattern.
C26_NoRestrictedLeft ==
    Returned =>
        \A i \in 1..Len(result.filtered_data) :
            LET key == result.filtered_data[i][1]
            IN  /\ lower(key) \notin RestrictedFields
                /\ DictHas(record, key)
                /\ ~ValueMatches(RestrictedPatterns, DictGet(record, key))

\* a record restricted by the name of one field and the value of the other
C26_Witness ==
    /\ Returned
    /\ record = <<<<N_Password, V_mail>>, <<N_notes, V_ssn>>>>
    /\ result.filtered_data = <<>>

\* C27: the keys of filtered_data and the names of removed_fields are
\* disjoint and together are the keys of the input, and every name of
\* masked_fields is a key of filtered_data; no key is added.
C27_KeysPartitioned ==
    Returned =>
        LET kept == Range(Keys(result.filtered_data))
            removed == Range(result.removed_fields)
        IN  /\ kept \cup removed = Range(Keys(record))
            /\ kept \cap removed = {}
            /\ Range(result.masked_fields) \subseteq kept
            /\ Len(result.filtered_data) + Len(result.removed_fields) = Len(record)

\* one field removed and another, of a name with a capital, masked
C27_Witness ==
    /\ Returned
    /\ result.removed_fields = <<N_Password>>
    /\ result.masked_fields = <<N_State>>
    /\ Keys(result.filtered_data) = <<N_State>>

\* ------------------------------------------------------------------------
\* SecurityMiddleware._check_rate_limit
\* ------------------------------------------------------------------------

\* window_size = 60  (seconds)
window_size == 60

\* max_requests = 100
max_requests == 100

\* the latest time of a request
MaxTime == 120

\* the most requests one window of the first client is seen to hold, and
\* of the second client
MaxCount == 102

MaxOther == 2

\* the seconds passing between two requests
TimeSteps == {0, 59, 60}

Clients == {"a", "b"}

\* f"{identifier}:{resource}"
RateKey(identifier, resource) == <<identifier, ":", resource>>

\* the limit tested with < instead of <=
_check_rate_limit_strict(store, identifier, resource, current_time) ==
    LET live == {k \in DOMAIN store :
                    current_time - store[k].window_start < window_size}
        cleaned == [k \in live |-> store[k]]
        key == RateKey(identifier, resource)
        fresh == [count |-> 1, window_start |-> current_time]
    IN  IF key \notin DOMAIN cleaned
        THEN [store |-> [k \in live \cup {key} |->
                            IF k = key THEN fresh ELSE cleaned[k]],
              allowed |-> TRUE]
        ELSE IF current_time - cleaned[key].window_start >= window_size
        THEN [store |-> [cleaned EXCEPT ![key] = fresh], allowed |-> TRUE]
        ELSE [store |-> [cleaned EXCEPT ![key].count = @ + 1],
              allowed |-> cleaned[key].count + 1 < max_requests]

\* the store after the call and the value returned
_check_rate_limit(store, identifier, resource, current_time) ==
    LET live == {k \in DOMAIN store :
                    current_time - store[k].window_start < window_size}
        cleaned == [k \in live |-> store[k]]
        key == RateKey(identifier, resource)
        fresh == [count |-> 1, window_start |-> current_time]
    IN  IF key \notin DOMAIN cleaned
        THEN [store |-> [k \in live \cup {key} |->
                            IF k = key THEN fresh ELSE cleaned[k]],
              allowed |-> TRUE]
        ELSE IF current_time - cleaned[key].window_start >= window_size
        THEN [store |-> [cleaned EXCEPT ![key] = fresh], allowed |-> TRUE]
        ELSE [store |-> [cleaned EXCEPT ![key].count = @ + 1],
              allowed |-> cleaned[key].count + 1 <= max_requests]

\* the window of a key as the requests define it: it starts at the first
\* request of the key and at the first one 60 seconds or more after the
\* start of the window before; seen counts its requests, passed the allowed
WindowAfter(window, key, t, allowed) ==
    IF key \notin DOMAIN window \/ t - window[key].start >= window_size
    THEN [k \in DOMAIN window \cup {key} |->
             IF k = key THEN [start |-> t, seen |-> 1,
                              passed |-> IF allowed THEN 1 ELSE 0]
             ELSE window[k]]
    ELSE [window EXCEPT ![key].seen = @ + 1,
                        ![key].passed = @ + (IF allowed THEN 1 ELSE 0)]

\* dispatch(request): the request of a client for a path, dt seconds after
\* the request before; the answer is 429 unless _check_rate_limit allows it
Dispatch(identifier, resource, dt) ==
    LET t == limiter.now + dt
        key == RateKey(identifier, resource)
        out == _check_rate_limit(limiter.store, identifier, resource, t)
    IN  /\ t <= MaxTime
        /\ (key \in DOMAIN limiter.store
              /\ t - limiter.store[key].window_start < window_size)
             => limiter.store[key].count
                  < (IF identifier = "a" THEN MaxCount ELSE MaxOther)
        /\ limiter' = [store |-> out.store, now |-> t,
                       window |-> WindowAfter(limiter.window, key, t, out.allowed),
                       key |-> key, allowed |-> out.allowed]
        /\ UNCHANGED <<proc, heap, seed, pc, callVars, fieldVars, scoreVars,
                       stepVars, engineVars, mout>>

NextLimiter ==
    \E c \in Clients, dt \in TimeSteps : Dispatch(c, "/x", dt)

SpecLimiter == StepInit /\ [][NextLimiter]_vars

\* C30: for every key and requests at non-decreasing times, of the requests
\* arriving less than 60 seconds after the first request of the key's
\* window the first 100 are allowed and the later ones rejected, rejected
\* ones counting too; the first request 60 seconds or more after the start
\* of the window is allowed and opens a window with count 1.
C30_RateLimit ==
    /\ \A k \in DOMAIN limiter.window : limiter.window[k].passed <= max_requests
    /\ limiter.key # <<>> =>
          LET w == limiter.window[limiter.key]
          IN  /\ limiter.allowed <=> w.seen <= max_requests
              /\ w.seen = 1 =>
                    /\ limiter.allowed
                    /\ limiter.store[limiter.key]
                          = [count |-> 1, window_start |-> limiter.now]
              /\ limiter.store[limiter.key].count = w.seen
              /\ limiter.store[limiter.key].window_start = w.start

\* the 101st request of a window rejected 59 seconds after its start, the
\* other client having a window of its own
C30_Witness ==
    /\ limiter.key = RateKey("a", "/x")
    /\ limiter.allowed = FALSE
    /\ limiter.window[limiter.key].seen = max_requests + 1
    /\ limiter.window[limiter.key].passed = max_requests
    /\ limiter.now - limiter.window[limiter.key].start = 59
    /\ RateKey("b", "/x") \in DOMAIN limiter.store
====
